---------------------------- MODULE Spec2Model ----------------------------
(***************************************************************************)
(* Model of the forge-meta-link indexing and retrieval engine              *)
(* (src-tauri/src): the SQLite storage layer (keyset pagination, ranked    *)
(* search with trigram fallback, bulk upsert with tags), the directory     *)
(* scan with mtime change detection, the thumbnail pre-cache run flag and   *)
(* the in-memory thumbnail indexes.                                         *)
(*                                                                         *)
(* Strings that are only compared for order (file names, model names,      *)
(* generation types, the COALESCE sentinels) are integer codes whose       *)
(* integer order is the BINARY collation order of the strings.  Texts that *)
(* are tokenized (prompts, queries, tags) are sequences of characters.     *)
(***************************************************************************)
EXTENDS Integers, Sequences, FiniteSets, TLC

VARIABLES
    images,          \* table images: a set of rows
    tags,            \* table tags: a set of [id, tag]
    image_tags,      \* table image_tags: a set of [image_id, tag_id]
    next_image_id,   \* AUTOINCREMENT sequence of images
    next_tag_id,     \* AUTOINCREMENT sequence of tags
    sort_by,         \* the sort mode of the running traversal
    generation_types,\* the generation-type filter of the running traversal
    limit,           \* the page size of the running traversal
    next_cursor,     \* the continuation token of the last page, or None
    pages,           \* the pages returned so far (sequences of row ids)
    pc,              \* where the client of the traversal is
    api,             \* the query entry point the client calls
    query,           \* Option<&str>: the text query of the traversal
    model_filter,    \* Option<&str>: the model-name filter of the traversal
    include_tags,    \* tags every returned image must carry
    exclude_tags,    \* tags no returned image may carry
    offset,          \* OFFSET of an offset-paginated call
    paths,           \* per call: which statement produced the page
    last_call,       \* the write call that has just returned: its input,
                     \* result and prior tables; None once the caller moved on
    supplied,        \* filepaths of the records upserted successfully so far
    latest_tags,     \* filepath -> tags supplied by the latest successful call
    disk,            \* the image files on disk: path -> mtime (NULL: unreadable)
    last_scan,       \* the scan that has just completed, or None
    thumbnail_precache_running, \* AppState: the AtomicBool run flag
    callers,         \* per client: where its precache_all_thumbnails call is
    workers,         \* per client: where the worker thread it spawned is
    exits,           \* the ways accepted passes have ended so far
    cache_files,     \* the thumbnail files in the cache directory
    thumbnail_index, \* AppState: cache keys known to have a file
    failed_thumbnail_sources, \* AppState: sources whose generation failed
    last_op,         \* the delete or move that has just returned, or None
    ops,             \* per kind of operation: where the one in flight is
    decode_failed,   \* sources whose latest generation attempt failed
    cache_dir,       \* AppState.cache_dir: whether the directory exists
    images_fts,      \* virtual table images_fts: the entries of its index
    images_fts_tri,  \* virtual table images_fts_tri: the entries of its index
    schema,          \* sqlite_master and table_info: the objects of the database file
    pool_cells,      \* the OnceLock statics of scan_pool and io_pool
    partial_files,   \* cache files File::create made whose JPEG is not written out
    threads          \* per thread: where its scan_pool or io_pool call is

dbVars     == <<images, tags, image_tags, next_image_id, next_tag_id>>
cursorVars == <<sort_by, generation_types, limit, next_cursor, pages, pc>>
queryVars  == <<api, query, model_filter, include_tags, exclude_tags, offset,
                paths>>
writeVars  == <<last_call, supplied, latest_tags>>
scanVars   == <<disk, last_scan>>
precacheVars == <<thumbnail_precache_running, callers, workers, exits>>
cacheVars  == <<cache_files, thumbnail_index, failed_thumbnail_sources, last_op>>
poolVars   == <<pool_cells, threads>>
storeVars  == <<images_fts, images_fts_tri, schema, poolVars, partial_files>>
thumbVars  == <<ops, decode_failed, cache_dir, storeVars>>
auxVars    == <<scanVars, precacheVars, cacheVars, thumbVars>>
vars       == <<dbVars, cursorVars, queryVars, writeVars, auxVars>>

-----------------------------------------------------------------------------
(* Values *)

\* SQL NULL / Option::None of an order-coded text column.
NULL == -1
\* Option::None and Option::Some(x).
None == [none |-> TRUE]
Some(x) == [some |-> x]

\* Order codes of strings: '' < "alpha" (1) < "grid" < "txt2img" < '~' < "~z" (5).
EmptyCode   == 0
GridCode    == 2
Txt2ImgCode == 3
TildeCode   == 4

\* File names are NOT NULL; model names are nullable; both are arbitrary
\* user strings, some of which sort above '~'.
FileNames  == {1, 5}
ModelNames == {NULL, 5}
GenerationTypes == {GridCode, Txt2ImgCode}

PathList ==
    << [dir |-> "lib", name |-> <<"p1">>], [dir |-> "lib", name |-> <<"p2">>],
       [dir |-> "lib", name |-> <<"p3">>], [dir |-> "lib", name |-> <<"p4">>],
       [dir |-> "lib", name |-> <<"p5">>], [dir |-> "lib", name |-> <<"p6">>] >>

\* Number of rows of the images table in the read-only query specifications.
NumRows == 3
\* Largest page size a client asks for.
MaxLimit == 2
\* Number of rows of the images table in the search specification.
NumSearchRows == 2
\* Largest number of records in one bulk upsert.
MaxBatch == 2

Min(a, b) == IF a <= b THEN a ELSE b

RECURSIVE Flatten(_)
Flatten(ss) == IF ss = <<>> THEN <<>> ELSE Head(ss) \o Flatten(Tail(ss))

SeqToSet(s) == { s[i] : i \in 1..Len(s) }

Take(s, n) == SubSeq(s, 1, Min(n, Len(s)))

-----------------------------------------------------------------------------
(* Sort configuration (database.rs SortConfig) *)

SortModes == {"newest", "oldest", "name_asc", "name_desc", "model", "generation_type"}

SortConfig_from_str(s) ==
    CASE s = "oldest"          -> [field |-> "id",              descending |-> FALSE]
      [] s = "name_asc"        -> [field |-> "filename",        descending |-> FALSE]
      [] s = "name_desc"       -> [field |-> "filename",        descending |-> TRUE]
      [] s = "model"           -> [field |-> "model_name",      descending |-> FALSE]
      [] s = "generation_type" -> [field |-> "generation_type", descending |-> FALSE]
      [] OTHER                 -> [field |-> "id",              descending |-> TRUE]

\* COALESCE(field, sentinel); "id" for the id sorts.
sort_expr(cfg, row) ==
    IF cfg.field = "id" THEN row.id
    ELSE LET null_sentinel == IF cfg.descending THEN EmptyCode ELSE TildeCode
             v == row[cfg.field]
         IN  IF v = NULL THEN null_sentinel ELSE v

\* a <op> b, where <op> is "<" for a descending sort and ">" otherwise.
cursor_op(cfg, a, b) == IF cfg.descending THEN a < b ELSE a > b

\* ORDER BY sort_expr dir, id dir: r1 comes strictly before r2.
order_clause(cfg, r1, r2) ==
    IF cfg.field = "id"
    THEN cursor_op(cfg, r2.id, r1.id)
    ELSE \/ cursor_op(cfg, sort_expr(cfg, r2), sort_expr(cfg, r1))
         \/ /\ sort_expr(cfg, r2) = sort_expr(cfg, r1)
            /\ cursor_op(cfg, r2.id, r1.id)

RECURSIVE OrderBy(_, _)
OrderBy(rows, cfg) ==
    IF rows = {} THEN <<>>
    ELSE LET first == CHOOSE r \in rows :
                          \A o \in rows \ {r} : order_clause(cfg, r, o)
         IN  <<first>> \o OrderBy(rows \ {first}, cfg)

-----------------------------------------------------------------------------
(* Row filters (database.rs append_generation_type_filter) *)

\* row.grid_like: the directory, filename or raw metadata of the row matches
\* one of the LIKE patterns of the grid fallback.
append_generation_type_filter(row, types) ==
    \/ types = {}
    \/ \E t \in types :
          IF t = GridCode
          THEN row.generation_type = GridCode \/ row.grid_like
          ELSE row.generation_type = t

\* AND LOWER(model_name) = ?; a NULL model_name equals nothing.  The filter
\* value is already trimmed, lowercased and non-empty.
append_model_filter(row, filter) ==
    filter = None \/ (row.model_name # NULL /\ row.model_name = filter.some)

RowFilters(row, types, filter) ==
    append_generation_type_filter(row, types) /\ append_model_filter(row, filter)

-----------------------------------------------------------------------------
(* Keyset pagination (database.rs / cursor_queries.rs get_images_cursor) *)

\* The keyset predicate as get_images_cursor appends it.
CursorClauseNoTieBreak(cfg, row, cursor) ==
    \/ cursor = None
    \/ IF cfg.field = "id" \/ "sort" \notin DOMAIN cursor
       THEN cursor_op(cfg, row.id, cursor.id)
       ELSE cursor_op(cfg, sort_expr(cfg, row), cursor.sort)

CursorClause(cfg, row, cursor) ==
    \/ cursor = None
    \/ IF cfg.field = "id" \/ "sort" \notin DOMAIN cursor
       THEN cursor_op(cfg, row.id, cursor.id)
       ELSE \/ cursor_op(cfg, sort_expr(cfg, row), cursor.sort)
            \/ /\ sort_expr(cfg, row) = cursor.sort
               /\ cursor_op(cfg, row.id, cursor.id)

\* serde_json::json!({"id": .., "sort": ..}) of the last row of a page.
CursorOfLast(cfg, items) ==
    IF items = <<>> THEN None
    ELSE LET last == items[Len(items)]
         IN  IF cfg.field = "id" THEN [id |-> last.id]
             ELSE [id |-> last.id, sort |-> sort_expr(cfg, last)]

\* One page of `candidates` (the rows the WHERE clause before the cursor
\* predicate keeps): the CursorPage {items, next_cursor}.
SelectPage(candidates, cfg, cursor, lim) ==
    LET after == { r \in candidates : CursorClause(cfg, r, cursor) }
        items == Take(OrderBy(after, cfg), lim)
    IN  [items |-> items, next_cursor |-> CursorOfLast(cfg, items)]

get_images_cursor(cursor, lim, sort, types, filter) ==
    LET cfg == SortConfig_from_str(sort)
        candidates == { r \in images : RowFilters(r, types, filter) }
    IN  SelectPage(candidates, cfg, cursor, lim)

RowIds(items) == [i \in 1..Len(items) |-> items[i].id]

RowById(id) == CHOOSE r \in images : r.id = id

\* A row of the images table (the columns the model reads).
MakeRow(id, filepath, filename, model_name, generation_type, grid_like, prompt, file_mtime) ==
    [id |-> id, filepath |-> filepath, filename |-> filename,
     model_name |-> model_name, generation_type |-> generation_type,
     grid_like |-> grid_like, prompt |-> prompt, file_mtime |-> file_mtime,
     is_favorite |-> FALSE, is_locked |-> FALSE]

-----------------------------------------------------------------------------
(* The parts of the state a specification does not use stay as constructed. *)

NoTraversal ==
    /\ sort_by = "newest"
    /\ generation_types = {}
    /\ limit = 1
    /\ next_cursor = None
    /\ pages = <<>>
    /\ pc = "start"

NoQuery ==
    /\ api = "none"
    /\ query = None
    /\ model_filter = None
    /\ include_tags = {}
    /\ exclude_tags = {}
    /\ offset = 0
    /\ paths = <<>>

NoWrites ==
    /\ last_call = None
    /\ supplied = {}
    /\ latest_tags = <<>>

NoScan ==
    /\ disk = <<>>
    /\ last_scan = None

NoPrecache ==
    /\ thumbnail_precache_running = FALSE
    /\ callers = <<>>
    /\ workers = <<>>
    /\ exits = {}

NoCache ==
    /\ cache_files = {}
    /\ thumbnail_index = {}
    /\ failed_thumbnail_sources = {}
    /\ last_op = None

NoStore ==
    /\ images_fts = {}
    /\ images_fts_tri = {}
    /\ schema = {}
    /\ pool_cells = <<>>
    /\ threads = <<>>
    /\ partial_files = {}

NoThumbs ==
    /\ ops = <<>>
    /\ decode_failed = {}
    /\ cache_dir = TRUE
    /\ NoStore

-----------------------------------------------------------------------------
(* Specification SpecCursor: a client pages through get_images_cursor over  *)
(* a table that is not mutated.                                             *)

\* A row that is not of type grid may still look like a grid output.
TypeValues == { [generation_type |-> GridCode,    grid_like |-> FALSE],
                [generation_type |-> Txt2ImgCode, grid_like |-> FALSE],
                [generation_type |-> Txt2ImgCode, grid_like |-> TRUE] }

SortFieldValues == [filename : FileNames, model_name : ModelNames, type : TypeValues]

CursorTables ==
    { { MakeRow(i, PathList[i], f[i].filename, f[i].model_name,
                f[i].type.generation_type, f[i].type.grid_like, <<>>, NULL)
        : i \in 1..NumRows }
      : f \in [1..NumRows -> SortFieldValues] }

\* The fixed filter of a traversal: none, a generation type, or a model name.
CursorFilters == { [generation_types |-> {},         model_filter |-> None],
                   [generation_types |-> {GridCode}, model_filter |-> None],
                   [generation_types |-> {},         model_filter |-> Some(5)] }

InitCursor ==
    /\ images \in CursorTables
    /\ tags = {}
    /\ image_tags = {}
    /\ next_image_id = NumRows + 1
    /\ next_tag_id = 1
    /\ sort_by \in SortModes
    /\ \E f \in CursorFilters :
          /\ generation_types = f.generation_types
          /\ model_filter = f.model_filter
    /\ limit \in 1..MaxLimit
    /\ next_cursor = None
    /\ pages = <<>>
    /\ pc = "start"
    /\ api = "get_images_cursor"
    /\ query = None
    /\ include_tags = {}
    /\ exclude_tags = {}
    /\ offset = 0
    /\ paths = <<>>
    /\ NoWrites
    /\ NoScan
    /\ NoPrecache
    /\ NoCache
    /\ NoThumbs

\* One get_images_cursor call: the first without a cursor, every later one
\* with the next_cursor of the previous page; the client stops at None.
GetImagesCursorCall ==
    /\ api = "get_images_cursor"
    /\ pc \in {"start", "paging"}
    /\ LET page == get_images_cursor(next_cursor, limit, sort_by,
                                     generation_types, model_filter)
       IN  /\ pages' = Append(pages, RowIds(page.items))
           /\ next_cursor' = page.next_cursor
           /\ pc' = IF page.next_cursor = None THEN "done" ELSE "paging"
    /\ UNCHANGED <<auxVars, dbVars, sort_by, generation_types, limit, queryVars, writeVars>>

NextCursor == GetImagesCursorCall

SpecCursor == InitCursor /\ [][NextCursor]_vars

\* C1: under every sort mode and a fixed filter over an unmutated table, the
\* pages of a cursor traversal hold only matching rows, every returned row is
\* strictly after all rows returned before it in the active order (so no row
\* is returned twice), no matching row still to come lies before a returned
\* row, and when the traversal ends every matching row has been returned.
C1_CursorPagesExactlyOnce ==
    LET cfg      == SortConfig_from_str(sort_by)
        matching == { r \in images :
                        RowFilters(r, generation_types, model_filter) }
        out      == Flatten(pages)
    IN  /\ \A i \in 1..Len(out) : RowById(out[i]) \in matching
        /\ \A i, j \in 1..Len(out) :
              i < j => order_clause(cfg, RowById(out[i]), RowById(out[j]))
        /\ \A r \in matching :
              r.id \notin SeqToSet(out) =>
                 /\ pc # "done"
                 /\ \A i \in 1..Len(out) : order_clause(cfg, RowById(out[i]), r)

\* A finished traversal of three or more pages under a non-id sort in which
\* a page boundary falls between two rows with equal sort keys.
C1_Witness ==
    LET cfg == SortConfig_from_str(sort_by)
    IN  /\ pc = "done"
        /\ cfg.field # "id"
        /\ Len(pages) >= 3
        /\ \E k \in 1..(Len(pages) - 1) :
              /\ pages[k] # <<>>
              /\ pages[k + 1] # <<>>
              /\ sort_expr(cfg, RowById(pages[k][Len(pages[k])]))
                   = sort_expr(cfg, RowById(pages[k + 1][1]))

-----------------------------------------------------------------------------
(* Text: a string is a sequence of one-character strings.                   *)

Letters == {"a", "b"}
Upper   == {"A", "B"}

is_alphanumeric(ch) == ch \in Letters \cup Upper
is_whitespace(ch)   == ch = " "

\* char::to_lowercase: the Unicode lower-case mapping.
to_lowercase_char(ch) ==
    CASE ch = "A" -> "a" [] ch = "B" -> "b" [] ch = "É" -> "é" [] OTHER -> ch
to_lowercase(s) == [i \in 1..Len(s) |-> to_lowercase_char(s[i])]
\* u8::to_ascii_lowercase: 'A'..='Z' only; every other character is kept.
to_ascii_lowercase_char(ch) == CASE ch = "A" -> "a" [] ch = "B" -> "b" [] OTHER -> ch
to_ascii_lowercase(s) == [i \in 1..Len(s) |-> to_ascii_lowercase_char(s[i])]

RECURSIVE trim_start(_)
trim_start(s) ==
    IF s # <<>> /\ is_whitespace(Head(s)) THEN trim_start(Tail(s)) ELSE s

RECURSIVE trim_end(_)
trim_end(s) ==
    IF s # <<>> /\ is_whitespace(s[Len(s)])
    THEN trim_end(SubSeq(s, 1, Len(s) - 1)) ELSE s

trim(s) == trim_end(trim_start(s))

\* A character of a whitespace-separated word, or of an alphanumeric token.
Keeps(kind, ch) == IF kind = "word" THEN ~is_whitespace(ch) ELSE is_alphanumeric(ch)

\* Maximal runs of kept characters, in order.
RECURSIVE Runs(_, _, _)
Runs(s, kind, cur) ==
    IF s = <<>> THEN (IF cur = <<>> THEN <<>> ELSE <<cur>>)
    ELSE IF Keeps(kind, Head(s)) THEN Runs(Tail(s), kind, Append(cur, Head(s)))
    ELSE (IF cur = <<>> THEN <<>> ELSE <<cur>>) \o Runs(Tail(s), kind, <<>>)

split_whitespace(s) == Runs(s, "word", <<>>)

RECURSIVE Join(_)
Join(parts) ==
    IF parts = <<>> THEN <<>>
    ELSE IF Len(parts) = 1 THEN parts[1]
    ELSE parts[1] \o <<" ">> \o Join(Tail(parts))

IsPrefixOf(p, s) == Len(p) <= Len(s) /\ SubSeq(s, 1, Len(p)) = p

contains_search_token(text) == \E i \in 1..Len(text) : is_alphanumeric(text[i])

-----------------------------------------------------------------------------
(* Full-text query construction (database.rs sanitize_fts_query)            *)

RECURSIVE process_unquoted_words_from(_)
process_unquoted_words_from(words) ==
    IF words = <<>> THEN <<>>
    ELSE LET word         == Head(words)
             has_wildcard == \E i \in 1..Len(word) : word[i] = "*"
             cleaned      == SelectSeq(word, LAMBDA ch :
                                 is_alphanumeric(ch) \/ ch = "_" \/ ch = "*")
             rest         == process_unquoted_words_from(Tail(words))
         IN  IF cleaned = <<>> \/ cleaned = <<"*">> THEN rest
             ELSE IF has_wildcard THEN <<to_lowercase(cleaned)>> \o rest
             ELSE <<to_lowercase(cleaned) \o <<"*">> >> \o rest

process_unquoted_words(text) == process_unquoted_words_from(split_whitespace(text))

\* str::find('"'): the position of the first double quote, 0 for None.
find_quote(s) ==
    IF \E i \in 1..Len(s) : s[i] = "\""
    THEN CHOOSE i \in 1..Len(s) : s[i] = "\"" /\ \A j \in 1..(i - 1) : s[j] # "\""
    ELSE 0

\* A phrase term that is the text between the quotes as the user wrote it.
phrase_termVerbatim(phrase) ==
    IF contains_search_token(phrase) THEN << <<"\"">> \o phrase \o <<"\"">> >> ELSE <<>>

\* The term pushed for the text between two quotes: its alphanumeric,
\* whitespace and underscore characters, the whitespace runs collapsed,
\* lower-cased, in quotes; nothing when no character is left.
phrase_term(phrase) ==
    LET cleaned == SelectSeq(phrase, LAMBDA ch :
                       is_alphanumeric(ch) \/ is_whitespace(ch) \/ ch = "_")
        joined  == Join(split_whitespace(cleaned))
    IN  IF joined = <<>> THEN <<>>
        ELSE << <<"\"">> \o to_lowercase(joined) \o <<"\"">> >>

\* The loop of sanitize_fts_query over `remaining`: the words before the
\* next quote, the phrase up to its closing quote, the rest; after a quote
\* that is not closed the rest is regular text.
RECURSIVE sanitize_loop(_)
sanitize_loop(remaining) ==
    LET start == find_quote(remaining)
        after == SubSeq(remaining, start + 1, Len(remaining))
        end   == find_quote(after)
    IN  IF start = 0 THEN process_unquoted_words(remaining)
        ELSE process_unquoted_words(SubSeq(remaining, 1, start - 1))
             \o (IF end = 0 THEN sanitize_loop(after)
                 ELSE phrase_term(SubSeq(after, 1, end - 1))
                      \o sanitize_loop(SubSeq(after, end + 1, Len(after))))

sanitize_fts_query(q) == Join(sanitize_loop(trim(q)))

-----------------------------------------------------------------------------
(* The two FTS5 indexes over the text of a row                              *)

\* tokenize = 'porter unicode61': the tokens of a text are its maximal
\* alphanumeric runs, case-folded.  The words of the model are their own
\* Porter stems.
Tokens(text) == SeqToSet(Runs(to_lowercase(text), "token", <<>>))

\* images_fts MATCH expr, expr a space-separated list of terms (implicit AND);
\* a term ending in * matches every token it is a prefix of.
PorterMatch(text, expr) ==
    \A k \in DOMAIN split_whitespace(expr) :
        LET term == split_whitespace(expr)[k]
        IN  IF term[Len(term)] = "*"
            THEN \E tok \in Tokens(text) :
                    IsPrefixOf(SubSeq(term, 1, Len(term) - 1), tok)
            ELSE term \in Tokens(text)

\* tokenize = 'trigram': the tokens of a text are its overlapping windows of
\* three characters, case-folded.
Trigrams(text) ==
    [i \in 1..(IF Len(text) >= 3 THEN Len(text) - 2 ELSE 0) |->
        SubSeq(to_lowercase(text), i, i + 2)]

\* images_fts_tri MATCH '"phrase"': the trigrams of the phrase occur at
\* consecutive positions of the text; a phrase without a trigram matches no row.
TrigramMatch(text, phrase) ==
    LET want == Trigrams(phrase)
        have == Trigrams(text)
    IN  /\ want # <<>>
        /\ \E at \in 1..Len(have) :
              /\ at + Len(want) - 1 <= Len(have)
              /\ \A k \in 1..Len(want) : have[at + k - 1] = want[k]

\* AND [NOT] EXISTS (SELECT 1 FROM image_tags it JOIN tags t ... t.tag = ?),
\* the parameter being tag.trim().to_ascii_lowercase().
HasTag(row, tag) ==
    \E it \in image_tags, t \in tags :
        /\ it.image_id = row.id
        /\ it.tag_id = t.id
        /\ t.tag = to_ascii_lowercase(trim(tag))

TagFilters(row, include, exclude) ==
    /\ \A tag \in include : HasTag(row, tag)
    /\ \A tag \in exclude : ~HasTag(row, tag)

EmptyPage == [items |-> <<>>, next_cursor |-> None]

-----------------------------------------------------------------------------
(* Ranked search with trigram fallback (cursor_queries.rs, database.rs)     *)
(* A parameter record p carries query, cursor, limit, sort_by,              *)
(* generation_types, model_filter, include_tags and exclude_tags.  The      *)
(* index functions add to their CursorPage the field ran: the MATCH         *)
(* statement was executed.                                                  *)

search_cursor_porter(p) ==
    LET sanitized == sanitize_fts_query(p.query)
    IN  IF sanitized = <<>> THEN EmptyPage @@ [ran |-> FALSE]
        ELSE SelectPage({ r \in images :
                            /\ PorterMatch(r.prompt, sanitized)
                            /\ RowFilters(r, p.generation_types, p.model_filter) },
                        SortConfig_from_str(p.sort_by), p.cursor, p.limit)
             @@ [ran |-> TRUE]

search_cursor_trigram(p) ==
    LET sanitized == trim(p.query)
    IN  IF sanitized = <<>> \/ ~contains_search_token(sanitized)
        THEN EmptyPage @@ [ran |-> FALSE]
        ELSE SelectPage({ r \in images :
                            /\ TrigramMatch(r.prompt, sanitized)
                            /\ RowFilters(r, p.generation_types, p.model_filter) },
                        SortConfig_from_str(p.sort_by), p.cursor, p.limit)
             @@ [ran |-> TRUE]

\* What a dispatcher did: the rows of the ranked page, whether the trigram
\* index was queried, and which index the returned page comes from.
Path(porter, trigram_ran, from) ==
    [ranked_rows |-> Len(porter.items), trigram_ran |-> trigram_ran, from |-> from]

Answer(page, path) ==
    [items |-> page.items, next_cursor |-> page.next_cursor, path |-> path]

search_cursorEagerFallback(p) ==
    LET porter  == search_cursor_porter(p)
        trigram == search_cursor_trigram(p)
    IN  IF Len(porter.items) >= p.limit
        THEN Answer(porter, Path(porter, FALSE, "ranked"))
        ELSE Answer(trigram, Path(porter, trigram.ran, "trigram"))

search_cursor(p) ==
    LET porter  == search_cursor_porter(p)
        trigram == search_cursor_trigram(p)
    IN  IF porter.items # <<>>
        THEN Answer(porter, Path(porter, FALSE, "ranked"))
        ELSE Answer(trigram, Path(porter, trigram.ran, "trigram"))

filter_images_cursor_porter(p) ==
    LET sanitized == IF p.query = None THEN <<>> ELSE sanitize_fts_query(p.query.some)
    IN  IF p.query # None /\ sanitized = <<>> THEN EmptyPage @@ [ran |-> FALSE]
        ELSE SelectPage({ r \in images :
                            /\ p.query # None => PorterMatch(r.prompt, sanitized)
                            /\ RowFilters(r, p.generation_types, p.model_filter)
                            /\ TagFilters(r, p.include_tags, p.exclude_tags) },
                        SortConfig_from_str(p.sort_by), p.cursor, p.limit)
             @@ [ran |-> p.query # None]

filter_images_cursor_trigram(p) ==
    LET sanitized == trim(IF p.query = None THEN <<>> ELSE p.query.some)
    IN  IF sanitized = <<>> \/ ~contains_search_token(sanitized)
        THEN EmptyPage @@ [ran |-> FALSE]
        ELSE SelectPage({ r \in images :
                            /\ TrigramMatch(r.prompt, sanitized)
                            /\ RowFilters(r, p.generation_types, p.model_filter)
                            /\ TagFilters(r, p.include_tags, p.exclude_tags) },
                        SortConfig_from_str(p.sort_by), p.cursor, p.limit)
             @@ [ran |-> TRUE]

filter_images_cursor(p) ==
    LET porter  == filter_images_cursor_porter(p)
        trigram == filter_images_cursor_trigram(p)
    IN  IF porter.items # <<>> THEN Answer(porter, Path(porter, FALSE, "ranked"))
        ELSE IF p.query = None THEN Answer(porter, Path(porter, FALSE, "ranked"))
        ELSE IF trim(p.query.some) = <<>>
             THEN Answer(porter, Path(porter, FALSE, "ranked"))
        ELSE Answer(trigram, Path(porter, trigram.ran, "trigram"))

\* LIMIT ? OFFSET ? over an ordered result.
LimitOffset(rows, lim, off) ==
    IF off >= Len(rows) THEN <<>>
    ELSE SubSeq(rows, off + 1, Min(off + lim, Len(rows)))

NewestFirst == [field |-> "id", descending |-> TRUE]

\* ORDER BY images_fts.rank with a query, images.id DESC without.  `rank` is
\* the order bm25 gives the matching rows: a sequence of all row ids.
query_images_porter(q, include, exclude, lim, off, rank) ==
    LET sanitized == IF q = None THEN <<>> ELSE sanitize_fts_query(q.some)
        matching  == { r \in images :
                         /\ q # None => PorterMatch(r.prompt, sanitized)
                         /\ TagFilters(r, include, exclude) }
        by_rank   == SelectSeq(rank, LAMBDA id : \E r \in matching : r.id = id)
        ordered   == IF q # None
                     THEN [i \in 1..Len(by_rank) |->
                              CHOOSE r \in matching : r.id = by_rank[i]]
                     ELSE OrderBy(matching, NewestFirst)
    IN  IF q # None /\ sanitized = <<>> THEN [items |-> <<>>, ran |-> FALSE]
        ELSE [items |-> LimitOffset(ordered, lim, off), ran |-> q # None]

query_images_trigram(q, include, exclude, lim, off) ==
    LET sanitized == trim(q)
        matching  == { r \in images :
                         /\ TrigramMatch(r.prompt, sanitized)
                         /\ TagFilters(r, include, exclude) }
    IN  IF sanitized = <<>> \/ ~contains_search_token(sanitized)
        THEN [items |-> <<>>, ran |-> FALSE]
        ELSE [items |-> LimitOffset(OrderBy(matching, NewestFirst), lim, off),
              ran |-> TRUE]

query_images(q, include, exclude, lim, off, rank) ==
    LET porter  == query_images_porter(q, include, exclude, lim, off, rank)
        trigram == query_images_trigram(q.some, include, exclude, lim, off)
    IN  IF porter.items # <<>>
        THEN [items |-> porter.items, path |-> Path(porter, FALSE, "ranked")]
        ELSE IF q = None
        THEN [items |-> porter.items, path |-> Path(porter, FALSE, "ranked")]
        ELSE IF trim(q.some) = <<>>
        THEN [items |-> porter.items, path |-> Path(porter, FALSE, "ranked")]
        ELSE [items |-> trigram.items, path |-> Path(porter, trigram.ran, "trigram")]

-----------------------------------------------------------------------------
(* Specification SpecSearch: a client searches an unmutated table through   *)
(* search_cursor, filter_images_cursor (following next_cursor) or           *)
(* query_images (one call at an offset).                                    *)

DocTexts == { <<"b", "a", "a", "b">>,
              <<"a", "a", "b", " ", "b", "a">>,
              <<"A", "b", "!">> }

Queries == { <<"b", "a", "a">>,            \* a prefix of the word baab
             <<" ", "a", "a", "b", " ">>,  \* the word aab, inside the word baab
             <<"a", "b">>,                 \* two characters
             <<"B", " ", "a">>,            \* two words
             <<"b", "b">>,                 \* in no text
             <<" ">>,                      \* blank
             <<"!">> }                     \* no alphanumeric character

SearchSortModes == {"newest", "name_asc", "model"}

SearchProfiles ==
    { [filename |-> 1, model_name |-> 5,    generation_type |-> GridCode],
      [filename |-> 5, model_name |-> NULL, generation_type |-> Txt2ImgCode] }

SearchTables ==
    { { MakeRow(i, PathList[i], f[i][2].filename, f[i][2].model_name,
                f[i][2].generation_type, FALSE, f[i][1], NULL)
        : i \in 1..NumSearchRows }
      : f \in [1..NumSearchRows -> DocTexts \X SearchProfiles] }

TagA == <<"a">>
\* The tag as the caller writes it.
FilterTag == <<" ", "A">>

Link(i) == [image_id |-> i, tag_id |-> 1]

TagFilterChoices == { [include_tags |-> {},          exclude_tags |-> {}],
                      [include_tags |-> {FilterTag}, exclude_tags |-> {}],
                      [include_tags |-> {},          exclude_tags |-> {FilterTag}] }

RankOrders(S) ==
    { f \in [1..Cardinality(S) -> S] : \A i, j \in DOMAIN f : f[i] = f[j] => i = j }

InitSearch ==
    /\ images \in SearchTables
    /\ tags = {[id |-> 1, tag |-> TagA]}
    /\ next_image_id = NumSearchRows + 1
    /\ next_tag_id = 2
    /\ limit \in 1..MaxLimit
    /\ next_cursor = None
    /\ pages = <<>>
    /\ paths = <<>>
    /\ pc = "start"
    /\ NoWrites
    /\ NoScan
    /\ NoPrecache
    /\ NoCache
    /\ \/ /\ api = "search_cursor"
          /\ query \in { Some(q) : q \in Queries }
          /\ image_tags = {}
          /\ sort_by \in SearchSortModes
          /\ \E f \in CursorFilters :
                /\ generation_types = f.generation_types
                /\ model_filter = f.model_filter
          /\ include_tags = {}
          /\ exclude_tags = {}
          /\ offset = 0
       \/ /\ api = "filter_images_cursor"
          /\ query \in { Some(q) : q \in Queries } \cup {None}
          /\ image_tags \in { {}, {Link(1)}, {Link(i) : i \in 2..NumSearchRows} }
          /\ sort_by \in SearchSortModes
          /\ \E f \in CursorFilters, t \in TagFilterChoices :
                /\ generation_types = f.generation_types
                /\ model_filter = f.model_filter
                /\ f.generation_types # {} => t.include_tags = {}
                /\ f.model_filter # None => t.exclude_tags = {}
                /\ include_tags = t.include_tags
                /\ exclude_tags = t.exclude_tags
          /\ offset = 0
       \/ /\ api = "query_images"
          /\ query \in { Some(q) : q \in Queries } \cup {None}
          /\ image_tags \in { {}, {Link(1)}, {Link(i) : i \in 2..NumSearchRows} }
          /\ sort_by = "newest"
          /\ generation_types = {}
          /\ model_filter = None
          /\ \E t \in TagFilterChoices :
                /\ include_tags = t.include_tags
                /\ exclude_tags = t.exclude_tags
          /\ offset \in 0..1
    /\ NoThumbs

Params ==
    [query |-> query, cursor |-> next_cursor, limit |-> limit, sort_by |-> sort_by,
     generation_types |-> generation_types, model_filter |-> model_filter,
     include_tags |-> include_tags, exclude_tags |-> exclude_tags]

Record(answer) ==
    /\ pages' = Append(pages, RowIds(answer.items))
    /\ paths' = Append(paths, answer.path)

SearchCursorCall ==
    /\ api = "search_cursor"
    /\ pc \in {"start", "paging"}
    /\ LET answer == search_cursor([Params EXCEPT !.query = query.some])
       IN  /\ Record(answer)
           /\ next_cursor' = answer.next_cursor
           /\ pc' = IF answer.next_cursor = None THEN "done" ELSE "paging"
    /\ UNCHANGED <<auxVars, dbVars, sort_by, generation_types, limit, api, query,
                   model_filter, include_tags, exclude_tags, offset, writeVars>>

FilterImagesCursorCall ==
    /\ api = "filter_images_cursor"
    /\ pc \in {"start", "paging"}
    /\ LET answer == filter_images_cursor(Params)
       IN  /\ Record(answer)
           /\ next_cursor' = answer.next_cursor
           /\ pc' = IF answer.next_cursor = None THEN "done" ELSE "paging"
    /\ UNCHANGED <<auxVars, dbVars, sort_by, generation_types, limit, api, query,
                   model_filter, include_tags, exclude_tags, offset, writeVars>>

QueryImagesCall ==
    /\ api = "query_images"
    /\ pc = "start"
    /\ \E rank \in RankOrders({ r.id : r \in images }) :
          Record(query_images(query, include_tags, exclude_tags, limit, offset, rank))
    /\ pc' = "done"
    /\ UNCHANGED <<auxVars, dbVars, sort_by, generation_types, limit, next_cursor, api,
                   query, model_filter, include_tags, exclude_tags, offset,
                   writeVars>>

NextSearch ==
    \/ SearchCursorCall
    \/ FilterImagesCursorCall
    \/ QueryImagesCall

SpecSearch == InitSearch /\ [][NextSearch]_vars

\* text contains q as a contiguous substring, ignoring case.
IsInfix(text, q) ==
    LET t == to_lowercase(text)
        w == to_lowercase(q)
    IN  \E i \in 1..Len(t) :
           i + Len(w) - 1 <= Len(t) /\ SubSeq(t, i, i + Len(w) - 1) = w

\* The row passes the type, model and tag filters of the running traversal.
PassesFilters(r) ==
    /\ RowFilters(r, generation_types, model_filter)
    /\ TagFilters(r, include_tags, exclude_tags)

\* The rows a substring search for the query should find, in the order and
\* window of the first call.
InfixFirstPage ==
    RowIds(LimitOffset(
        OrderBy({ r \in images : IsInfix(r.prompt, trim(query.some)) /\ PassesFilters(r) },
                SortConfig_from_str(sort_by)),
        limit, offset))

C3_NoFallbackAfterRankedMatch ==
    (/\ api \in {"search_cursor", "filter_images_cursor"}
     /\ query # None
     /\ Len(paths) >= 1
     /\ paths[1].ranked_rows > 0)
    => \A i \in DOMAIN paths : ~(paths[i].from = "trigram" /\ pages[i] # <<>>)

-----------------------------------------------------------------------------
(* Writes (database/bulk_operations.rs).  A write runs on the tables `db`   *)
(* inside a transaction and yields the tables to commit.                    *)

DB ==
    [images |-> images, tags |-> tags, image_tags |-> image_tags,
     next_image_id |-> next_image_id, next_tag_id |-> next_tag_id]

Ok(n) == [ok |-> n]
Err   == [err |-> TRUE]

\* The prompt and model name of a record; a record built without parsed
\* metadata carries the default GenerationParams.
ParamsOf(rec) ==
    IF "params" \in DOMAIN rec THEN rec.params ELSE [prompt |-> <<>>, model_name |-> NULL]

RowOf(id, rec) ==
    MakeRow(id, rec.filepath, rec.filename, ParamsOf(rec).model_name, Txt2ImgCode, FALSE,
            ParamsOf(rec).prompt, rec.file_mtime)

\* INSERT OR REPLACE: the conflicting row is deleted and a new row inserted.
upsert_image_rowInsertOrReplace(db, rec) ==
    [db |-> [db EXCEPT
               !.images = { r \in @ : r.filepath # rec.filepath }
                            \cup {RowOf(db.next_image_id, rec)},
               !.next_image_id = @ + 1],
     id |-> db.next_image_id]

\* INSERT INTO images ... ON CONFLICT(filepath) DO UPDATE SET ... RETURNING id
upsert_image_row(db, rec) ==
    LET existing == { r \in db.images : r.filepath = rec.filepath }
    IN  IF existing # {}
        THEN LET old == CHOOSE r \in existing : TRUE
                 row == [RowOf(old.id, rec) EXCEPT !.is_favorite = old.is_favorite,
                                                   !.is_locked = old.is_locked]
             IN  [db |-> [db EXCEPT !.images = (@ \ {old}) \cup {row}],
                  id |-> old.id]
        ELSE [db |-> [db EXCEPT !.images = @ \cup {RowOf(db.next_image_id, rec)},
                                !.next_image_id = @ + 1],
              id |-> db.next_image_id]

\* INSERT INTO tags(tag) ... ON CONFLICT(tag) DO UPDATE SET tag=excluded.tag
\* RETURNING id
upsert_tag(db, normalized) ==
    LET existing == { t \in db.tags : t.tag = normalized }
    IN  IF existing # {}
        THEN [db |-> db, id |-> (CHOOSE t \in existing : TRUE).id]
        ELSE [db |-> [db EXCEPT !.tags = @ \cup {[id |-> db.next_tag_id, tag |-> normalized]},
                                !.next_tag_id = @ + 1],
              id |-> db.next_tag_id]

\* DELETE FROM image_tags WHERE image_id = ?1
delete_image_tagsKeepsLinks(db, id) == db

delete_image_tags(db, id) ==
    [db EXCEPT !.image_tags = { it \in @ : it.image_id # id }]

\* The loop over the tags of one record; st = [db, tag_id_cache, seen_tags].
\* use_cache: bulk_upsert_with_tags looks a tag up in tag_id_cache first.
RECURSIVE insert_tags(_, _, _, _)
insert_tags(st, id, tag_list, use_cache) ==
    IF tag_list = <<>> THEN st
    ELSE LET normalized == to_ascii_lowercase(trim(Head(tag_list)))
         IN  IF normalized = <<>> \/ normalized \in st.seen_tags
             THEN insert_tags(st, id, Tail(tag_list), use_cache)
             ELSE LET cached == use_cache /\ normalized \in DOMAIN st.tag_id_cache
                      up     == IF cached
                                THEN [db |-> st.db, id |-> st.tag_id_cache[normalized]]
                                ELSE upsert_tag(st.db, normalized)
                      linked == [up.db EXCEPT !.image_tags =
                                    @ \cup {[image_id |-> id, tag_id |-> up.id]}]
                  IN  insert_tags(
                        [db |-> linked,
                         tag_id_cache |-> (normalized :> up.id) @@ st.tag_id_cache,
                         seen_tags |-> st.seen_tags \cup {normalized}],
                        id, Tail(tag_list), use_cache)

\* One iteration of the loop over the records; st = [db, tag_id_cache, count].
\* stop_after_row: a statement fails after the image row was written.
upsert_record(st, rec, stop_after_row) ==
    LET row     == upsert_image_row(st.db, rec)
        cleared == delete_image_tags(row.db, row.id)
        tagged  == insert_tags([db |-> cleared, tag_id_cache |-> st.tag_id_cache,
                                seen_tags |-> {}], row.id, rec.tags, TRUE)
    IN  IF stop_after_row
        THEN [db |-> row.db, tag_id_cache |-> st.tag_id_cache, count |-> st.count]
        ELSE [db |-> tagged.db, tag_id_cache |-> tagged.tag_id_cache,
              count |-> st.count + 1]

\* The records loop up to and including record `upto`; the statement failure,
\* if any, is in record fail_index.
RECURSIVE upsert_records(_, _, _, _)
upsert_records(st, records, k, fail_index) ==
    IF k > Len(records) \/ (fail_index # 0 /\ k > fail_index) THEN st
    ELSE upsert_records(upsert_record(st, records[k], k = fail_index),
                        records, k + 1, fail_index)

\* Where a call fails: nowhere, at pool.get()/transaction(), in a statement
\* of record `index`, or at commit.
NoFailure == [kind |-> "none", index |-> 0]

Failures(records) ==
    {NoFailure, [kind |-> "pool", index |-> 0], [kind |-> "commit", index |-> 0]}
      \cup { [kind |-> "statement", index |-> k] : k \in 1..Len(records) }

Transaction(db, work) == [db |-> db, work |-> work]

\* A failure that leaves the statements already executed in place.
bulk_upsert_with_tagsNoRollback(db, records, fail) ==
    LET tx == Transaction(db, upsert_records(
                  [db |-> db, tag_id_cache |-> <<>>, count |-> 0],
                  records, 1, fail.index))
    IN  IF records = <<>> THEN [db |-> db, result |-> Ok(0)]
        ELSE IF fail.kind = "pool" THEN [db |-> db, result |-> Err]
        ELSE IF fail.kind = "none" THEN [db |-> tx.work.db, result |-> Ok(tx.work.count)]
        ELSE [db |-> tx.work.db, result |-> Err]

\* Dropping the transaction without commit rolls it back.
bulk_upsert_with_tags(db, records, fail) ==
    LET tx == Transaction(db, upsert_records(
                  [db |-> db, tag_id_cache |-> <<>>, count |-> 0],
                  records, 1, fail.index))
    IN  IF records = <<>> THEN [db |-> db, result |-> Ok(0)]
        ELSE IF fail.kind = "pool" THEN [db |-> db, result |-> Err]
        ELSE IF fail.kind = "none" THEN [db |-> tx.work.db, result |-> Ok(tx.work.count)]
        ELSE [db |-> tx.db, result |-> Err]

replace_image_tags(db, image_id, tag_list, fail) ==
    LET cleared == delete_image_tags(db, image_id)
        tagged  == insert_tags([db |-> cleared, tag_id_cache |-> <<>>, seen_tags |-> {}],
                               image_id, tag_list, FALSE)
    IN  IF fail.kind = "none" THEN [db |-> tagged.db, result |-> Ok(0)]
        ELSE [db |-> db, result |-> Err]

-----------------------------------------------------------------------------
(* Specification SpecUpsert: any sequence of bulk upserts and tag            *)
(* replacements on a library that starts empty; any call may fail.          *)

UpsertPaths == {PathList[1], PathList[2]}

\* Tags as the caller supplies them: none; one; a padded upper-case tag, its
\* duplicate and a blank one.
TagLists == { <<>>,
              << <<"b">> >>,
              << <<" ", "A">>, <<"a">>, <<" ">> >> }

\* The field values and tags of a record: a first version without tags or
\* with one tag, and a second version with the padded tags.
FieldValues ==
    { [filename |-> 1, file_mtime |-> 100, tags |-> <<>>],
      [filename |-> 1, file_mtime |-> 100, tags |-> << <<"b">> >>],
      [filename |-> 5, file_mtime |-> 200, tags |-> << <<" ", "A">>, <<"a">>, <<" ">> >>] }

BulkRecords ==
    { [filepath |-> p, filename |-> v.filename, file_mtime |-> v.file_mtime,
       tags |-> v.tags] : p \in UpsertPaths, v \in FieldValues }

Batches == UNION { [1..n -> BulkRecords] : n \in 0..MaxBatch }

RecordPaths(records) == { records[k].filepath : k \in DOMAIN records }

\* The last record of the batch for a filepath.
LastRecordFor(records, path) ==
    records[CHOOSE k \in DOMAIN records :
               /\ records[k].filepath = path
               /\ \A j \in DOMAIN records : records[j].filepath = path => j <= k]

InitUpsert ==
    /\ images = {}
    /\ tags = {}
    /\ image_tags = {}
    /\ next_image_id = 1
    /\ next_tag_id = 1
    /\ NoTraversal
    /\ NoQuery
    /\ NoWrites
    /\ NoScan
    /\ NoPrecache
    /\ NoCache
    /\ NoThumbs

Commit(db) ==
    /\ images' = db.images
    /\ tags' = db.tags
    /\ image_tags' = db.image_tags
    /\ next_image_id' = db.next_image_id
    /\ next_tag_id' = db.next_tag_id

BulkUpsertWithTags ==
    /\ last_call = None
    /\ \E records \in Batches :
         \E fail \in Failures(records) :
           LET out == bulk_upsert_with_tags(DB, records, fail)
               ok  == out.result # Err
           IN  /\ Commit(out.db)
               /\ last_call' = [op |-> "bulk_upsert_with_tags", records |-> records,
                                fail |-> fail, result |-> out.result, before |-> DB]
               /\ supplied' = IF ok THEN supplied \cup RecordPaths(records) ELSE supplied
               /\ latest_tags' =
                    IF ok
                    THEN [q \in RecordPaths(records) |-> LastRecordFor(records, q).tags]
                           @@ latest_tags
                    ELSE latest_tags
    /\ UNCHANGED <<auxVars, cursorVars, queryVars>>

ReplaceImageTags ==
    /\ last_call = None
    /\ \E row \in images, tag_list \in TagLists :
         \E fail \in {NoFailure, [kind |-> "statement", index |-> 1]} :
           LET out == replace_image_tags(DB, row.id, tag_list, fail)
               ok  == out.result # Err
           IN  /\ Commit(out.db)
               /\ last_call' = [op |-> "replace_image_tags", records |-> <<>>,
                                fail |-> fail, result |-> out.result, before |-> DB]
               /\ latest_tags' = IF ok THEN (row.filepath :> tag_list) @@ latest_tags
                                 ELSE latest_tags
    /\ UNCHANGED <<auxVars, cursorVars, queryVars, supplied>>

\* The caller takes the result and goes on to its next call.
ReturnToCaller ==
    /\ last_call # None
    /\ last_call' = None
    /\ UNCHANGED <<auxVars, dbVars, cursorVars, queryVars, supplied, latest_tags>>

NextUpsert ==
    \/ BulkUpsertWithTags
    \/ ReplaceImageTags
    \/ ReturnToCaller

SpecUpsert == InitUpsert /\ [][NextUpsert]_vars

\* The tags associated with an image, through image_tags and tags.
TagsOfImage(db, id) ==
    { t.tag : t \in { t \in db.tags :
                        [image_id |-> id, tag_id |-> t.id] \in db.image_tags } }

\* The normalized, non-empty, deduplicated tags of a supplied list.
NormalizedTags(tag_list) ==
    { to_ascii_lowercase(trim(tag_list[k])) : k \in DOMAIN tag_list } \ {<<>>}

LastBulkOk ==
    /\ last_call # None
    /\ last_call.op = "bulk_upsert_with_tags"
    /\ last_call.result # Err

\* C4: the images table holds exactly one row per filepath upserted so far;
\* a successful bulk upsert raises the row count by the number of distinct
\* filepaths of the batch that were not stored, and a record for a stored
\* filepath keeps the row's id and gives the row the record's field values,
\* every other row staying as it was.
C4_OneRowPerFilepath ==
    /\ \A r1, r2 \in images : r1.filepath = r2.filepath => r1 = r2
    /\ { r.filepath : r \in images } = supplied
    /\ LastBulkOk =>
         LET before  == last_call.before.images
             records == last_call.records
             fresh   == RecordPaths(records) \ { r.filepath : r \in before }
         IN  /\ Cardinality(images) = Cardinality(before) + Cardinality(fresh)
             /\ \A old \in before :
                   IF old.filepath \in RecordPaths(records)
                   THEN RowOf(old.id, LastRecordFor(records, old.filepath)) \in images
                   ELSE old \in images

\* A successful batch of two records: one for a stored filepath with other
\* field values, one for a filepath not stored before.
C4_Witness ==
    /\ LastBulkOk
    /\ Len(last_call.records) = 2
    /\ \E old \in last_call.before.images :
          /\ old.filepath \in RecordPaths(last_call.records)
          /\ old \notin images
    /\ \E k \in DOMAIN last_call.records :
          \A old \in last_call.before.images :
             old.filepath # last_call.records[k].filepath

\* C5: every image carries exactly the normalized, non-empty, deduplicated
\* tags of the latest successful call that supplied tags for it, and every
\* association points at a stored tag.
C5_TagsAreLatestSupplied ==
    /\ \A r \in images :
          r.filepath \in DOMAIN latest_tags =>
             TagsOfImage(DB, r.id) = NormalizedTags(latest_tags[r.filepath])
    /\ \A it \in image_tags : \E t \in tags : t.id = it.tag_id

\* A call has just dropped a tag an earlier call gave the image, and gave it
\* another one.
C5_Witness ==
    /\ last_call # None
    /\ last_call.result # Err
    /\ \E r \in images :
          /\ r.filepath \in DOMAIN latest_tags
          /\ TagsOfImage(DB, r.id) # {}
          /\ TagsOfImage(last_call.before, r.id) \ TagsOfImage(DB, r.id) # {}

\* C6: a bulk upsert that fails anywhere returns an error and leaves every
\* table as it was; one that returns Ok(count) has count equal to the number
\* of records, and every record's filepath then holds the field values and
\* tags of the last record supplied for it.
C6_BulkUpsertAllOrNothing ==
    (last_call # None /\ last_call.op = "bulk_upsert_with_tags") =>
      LET records == last_call.records
      IN  /\ (records # <<>> /\ last_call.fail.kind # "none") => last_call.result = Err
          /\ last_call.result = Err => DB = last_call.before
          /\ last_call.result # Err =>
               /\ last_call.result = Ok(Len(records))
               /\ \A q \in RecordPaths(records) :
                     \E r \in images :
                        /\ r = RowOf(r.id, LastRecordFor(records, q))
                        /\ TagsOfImage(DB, r.id)
                             = NormalizedTags(LastRecordFor(records, q).tags)

\* A batch failed in its second record, after the first record's row and
\* tags had been written inside the transaction.
C6_Witness ==
    /\ last_call # None
    /\ last_call.op = "bulk_upsert_with_tags"
    /\ last_call.result = Err
    /\ last_call.fail = [kind |-> "statement", index |-> 2]
    /\ last_call.records[1].filepath \notin { r.filepath : r \in last_call.before.images }
    /\ last_call.records[1].tags # <<>>

-----------------------------------------------------------------------------
(* The directory scan (scanner.rs, commands/scan.rs): discover the files,   *)
(* read the stored mtimes, keep the new and changed files, parse them in     *)
(* chunks and write each chunk of records with bulk_upsert_with_tags.        *)

\* Files of the scanned directory, and the chunk sizes of the parse and the
\* write loops (scaled to the number of files).
NumFiles           == 2
MetadataParseChunk == 2
BulkChunk          == 1

ScanPaths == { PathList[i] : i \in 1..NumFiles }

\* Seconds since the epoch; NULL when the file's metadata cannot be read.
Mtimes == {NULL, 100, 200}

\* scanner::scan_directory: every supported file with its mtime.
scanner_scan_directory(files) ==
    { [path |-> p, file_mtime |-> files[p]] : p \in DOMAIN files }

\* SELECT filepath, file_mtime FROM images WHERE file_mtime IS NOT NULL
get_all_file_mtimes(db, fail) ==
    LET rows == { r \in db.images : r.file_mtime # NULL }
    IN  IF fail THEN Err
        ELSE Ok([p \in { r.filepath : r \in rows } |->
                   (CHOOSE r \in rows : r.filepath = p).file_mtime])

\* Result::unwrap_or_default on a map: an error becomes the empty map.
unwrap_or_default(result) == IF result = Err THEN <<>> ELSE result.ok

\* matches!((scanned.file_mtime, existing_mtimes.get(path)),
\*          (Some(cur), Some(existing)) if cur == *existing)
is_unchanged(scanned, existing_mtimes) ==
    /\ scanned.file_mtime # NULL
    /\ scanned.path \in DOMAIN existing_mtimes
    /\ existing_mtimes[scanned.path] = scanned.file_mtime

PathIndex(p) == CHOOSE i \in DOMAIN PathList : PathList[i] = p

\* sort_unstable_by(|a, b| a.path.cmp(&b.path))
SortByPath(files) ==
    CHOOSE s \in [1..Cardinality(files) -> files] :
        \A i, j \in DOMAIN s : i < j => PathIndex(s[i].path) < PathIndex(s[j].path)

\* slice.chunks(n)
Chunks(s, n) ==
    [k \in 1..((Len(s) + n - 1) \div n) |->
        SubSeq(s, (k - 1) * n + 1, Min(k * n, Len(s)))]

\* The record built from a parsed file.
BulkRecordOf(pending) ==
    [filepath |-> pending.path, filename |-> 1,
     file_mtime |-> pending.file_mtime, tags |-> <<>>]

ParseChunkRecords(file_chunk) ==
    [k \in DOMAIN file_chunk |-> BulkRecordOf(file_chunk[k])]

\* The write chunks of the whole scan, in the order they are written.
WriteChunks(files_to_process) ==
    LET parsed == Chunks(files_to_process, MetadataParseChunk)
    IN  Flatten([k \in DOMAIN parsed |-> Chunks(ParseChunkRecords(parsed[k]), BulkChunk)])

\* A write loop that gives up at the first chunk that fails.
RECURSIVE write_chunksUntilFailure(_, _, _, _)
write_chunksUntilFailure(st, chunks, k, fails) ==
    IF k > Len(chunks) THEN st
    ELSE LET out == bulk_upsert_with_tags(st.db, chunks[k], fails[k])
         IN  IF out.result = Err
             THEN [st EXCEPT !.db_errors = @ + Len(chunks[k]), !.writes = @ + 1]
             ELSE write_chunksUntilFailure(
                      [st EXCEPT !.db = out.db, !.indexed = @ + out.result.ok,
                                 !.writes = @ + 1],
                      chunks, k + 1, fails)

\* for chunk in records.chunks(BULK_CHUNK_SIZE) { match db.bulk_upsert_with_tags(chunk) ... }
RECURSIVE write_chunks(_, _, _, _)
write_chunks(st, chunks, k, fails) ==
    IF k > Len(chunks) THEN st
    ELSE LET out == bulk_upsert_with_tags(st.db, chunks[k], fails[k])
         IN  write_chunks(
                 IF out.result = Err
                 THEN [st EXCEPT !.db_errors = @ + Len(chunks[k]), !.writes = @ + 1]
                 ELSE [st EXCEPT !.db = out.db, !.indexed = @ + out.result.ok,
                                 !.writes = @ + 1],
                 chunks, k + 1, fails)

\* The ways one write chunk can end.
ChunkFailures == {NoFailure, [kind |-> "commit", index |-> 0]}

-----------------------------------------------------------------------------
(* Specification SpecScan: files appear and change on disk between scans of *)
(* the same directory; the mtime read and every write chunk may fail.        *)

InitScan ==
    /\ images = {}
    /\ tags = {}
    /\ image_tags = {}
    /\ next_image_id = 1
    /\ next_tag_id = 1
    /\ disk = <<>>
    /\ last_scan = None
    /\ NoTraversal
    /\ NoQuery
    /\ NoWrites
    /\ NoPrecache
    /\ NoCache
    /\ NoThumbs

ScanIdle == IF last_scan = None THEN TRUE ELSE last_scan.returned

\* A file is created, or modified so that its mtime changes.
WriteFile ==
    /\ ScanIdle
    /\ \E p \in ScanPaths, t \in Mtimes :
         /\ p \in DOMAIN disk => disk[p] # t
         /\ disk' = (p :> t) @@ disk
    /\ UNCHANGED <<thumbVars, dbVars, cursorVars, queryVars, writeVars, last_scan,
                   precacheVars, cacheVars>>

\* Is this the second scan of a directory that has not changed since a scan
\* that indexed every file it processed?
IsRescan == last_scan # None /\ last_scan.seen = disk /\ last_scan.complete

\* scan_directory up to the scan-complete event; error_counter is never
\* incremented, so the errors of the event are errors + db_errors = db_errors.
ScanDirectory ==
    /\ ScanIdle
    /\ \E read_fail \in BOOLEAN :
         LET image_files      == scanner_scan_directory(disk)
             existing_mtimes  == unwrap_or_default(get_all_file_mtimes(DB, read_fail))
             files_to_process ==
                 SortByPath({ f \in image_files : ~is_unchanged(f, existing_mtimes) })
             chunks           == WriteChunks(files_to_process)
         IN  IF image_files = {}
             THEN /\ ~read_fail
                  /\ last_scan' = [returned |-> FALSE, seen |-> disk, complete |-> TRUE,
                                   rescan |-> IsRescan, before |-> images,
                                   read_failed |-> FALSE, processed |-> {},
                                   writes |-> 0, indexed |-> 0, db_errors |-> 0,
                                   chunks |-> <<>>, fails |-> <<>>,
                                   event |-> [total_files |-> 0, indexed |-> 0,
                                              errors |-> 0]]
                  /\ UNCHANGED dbVars
             ELSE \E fails \in [DOMAIN chunks -> ChunkFailures] :
                    LET out == write_chunks([db |-> DB, indexed |-> 0, db_errors |-> 0,
                                             writes |-> 0], chunks, 1, fails)
                    IN  /\ Commit(out.db)
                        /\ last_scan' =
                             [returned |-> FALSE, seen |-> disk,
                              complete |-> (out.db_errors = 0),
                              rescan |-> IsRescan, before |-> images,
                              read_failed |-> read_fail,
                              processed |-> { files_to_process[k].path :
                                                k \in DOMAIN files_to_process },
                              writes |-> out.writes, indexed |-> out.indexed,
                              db_errors |-> out.db_errors,
                              chunks |-> chunks, fails |-> fails,
                              event |-> [total_files |-> Cardinality(image_files),
                                         indexed |-> out.indexed,
                                         errors |-> 0 + out.db_errors]]
    /\ UNCHANGED <<thumbVars, cursorVars, queryVars, writeVars, disk, precacheVars, cacheVars>>

\* The scan-complete event has been taken; only what the next scan of the
\* directory can depend on is kept.
ScanReturn ==
    /\ last_scan # None
    /\ ~last_scan.returned
    /\ last_scan' = [returned |-> TRUE, seen |-> last_scan.seen,
                     complete |-> last_scan.complete]
    /\ UNCHANGED <<thumbVars, dbVars, cursorVars, queryVars, writeVars, disk,
                   precacheVars, cacheVars>>

NextScan ==
    \/ WriteFile
    \/ ScanDirectory
    \/ ScanReturn

SpecScan == InitScan /\ [][NextScan]_vars

\* The mtime stored for a path, NULL when none is stored.
StoredMtime(rows, p) ==
    IF \E r \in rows : r.filepath = p
    THEN (CHOOSE r \in rows : r.filepath = p).file_mtime
    ELSE NULL

\* C7: a scan reprocesses a discovered file if and only if its current mtime
\* differs from the mtime stored for its path or no mtime is stored for it;
\* and the second scan of an unchanged directory parses nothing and performs
\* no bulk-upsert write.
C7_ReprocessedIffMtimeChanged ==
    (last_scan # None /\ ~last_scan.returned) =>
        /\ last_scan.processed =
             { p \in DOMAIN last_scan.seen :
                 \/ StoredMtime(last_scan.before, p) = NULL
                 \/ StoredMtime(last_scan.before, p) # last_scan.seen[p] }
        /\ last_scan.rescan => (last_scan.processed = {} /\ last_scan.writes = 0)

-----------------------------------------------------------------------------
(* The thumbnail cache (image_processing.rs) and the full-library pre-cache *)
(* pass (commands/thumbnails.rs).                                           *)

\* The paths whose SHA-256 digest is tabulated below: one file name in three
\* directories, two of them spellings of one directory.
KeyPathList ==
    << [dir |-> "/lib/a", name |-> <<"x.png">>],
       [dir |-> "/lib/./a", name |-> <<"x.png">>],
       [dir |-> "/lib/b", name |-> <<"x.png">>] >>

KeyPaths == { KeyPathList[i] : i \in DOMAIN KeyPathList }

\* Path::to_string_lossy of a path that is valid UTF-8 (the commands get
\* their paths as Strings): the path as it is spelled.
to_string_lossy(path) == path.dir \o "/" \o path.name[1]

\* Sha256::new(), update(bytes), finalize(): the 32 bytes of the digest of
\* the UTF-8 bytes of a string.
Sha256 ==
    "/lib/a/x.png" :>
        <<247, 3, 191, 69, 188, 138, 222, 86, 9, 103, 194, 83, 43, 164, 58, 169,
          139, 59, 216, 78, 106, 87, 71, 6, 8, 205, 128, 58, 135, 158, 139, 193>> @@
    "/lib/./a/x.png" :>
        <<116, 116, 27, 154, 50, 86, 111, 93, 195, 125, 234, 213, 94, 136, 240, 80,
          21, 233, 82, 224, 179, 221, 94, 224, 85, 118, 96, 225, 227, 53, 241, 4>> @@
    "/lib/b/x.png" :>
        <<237, 186, 194, 212, 211, 202, 166, 86, 118, 150, 177, 111, 39, 106, 125, 143,
          105, 111, 150, 129, 164, 61, 82, 66, 248, 192, 78, 33, 40, 80, 57, 138>>

HEX == <<"0", "1", "2", "3", "4", "5", "6", "7", "8", "9", "a", "b", "c", "d", "e", "f">>

\* hex_encode: two lower-case hex digits per byte, the high nibble first.
RECURSIVE hex_encode(_)
hex_encode(bytes) ==
    IF bytes = <<>> THEN ""
    ELSE HEX[(Head(bytes) \div 16) + 1] \o HEX[(Head(bytes) % 16) + 1]
         \o hex_encode(Tail(bytes))

\* A key that is the digest of the file name alone.
hash_pathOfFileName(path) ==
    IF path \in KeyPaths
    THEN hex_encode(SubSeq(Sha256["/lib/a/" \o path.name[1]], 1, 16))
    ELSE <<"sha256", path>>

\* hash_path: the hex of the first 16 bytes of SHA-256 of the path string.
\* The digest of a path that is not tabulated is named by its path string.
hash_path(path) ==
    IF path \in KeyPaths
    THEN hex_encode(SubSeq(Sha256[to_string_lossy(path)], 1, 16))
    ELSE <<"sha256", path>>

\* The cache file of a source: <cache_dir>/<hash>.jpg.
get_thumbnail_cache_path(source) == [hash |-> hash_path(source), ext |-> "jpg"]

\* AtomicBool::compare_exchange(current, new): a swap that reports success
\* whatever the flag holds.
compare_exchangeAlwaysSwaps(flag, current, new) == [flag |-> new, ok |-> TRUE]

\* AtomicBool::compare_exchange(current, new)
compare_exchange(flag, current, new) ==
    IF flag = current THEN [flag |-> new, ok |-> TRUE]
    ELSE [flag |-> flag, ok |-> FALSE]

\* A guard whose drop leaves the flag as it is.
RunningGuard_dropNoStore(flag) == flag

\* impl Drop for RunningGuard: self.flag.store(false, Ordering::Release)
RunningGuard_drop(flag) == FALSE

\* SELECT filepath FROM images ORDER BY id DESC
get_all_image_filepaths_desc(db, fail) ==
    IF fail THEN Err
    ELSE Ok({ r.filepath : r \in db.images })

\* The classification loop of the pass: the sources with no key in the index
\* snapshot and no cache file are pending; keys of cache files found on disk
\* are discovered.
PrecachePending(filepaths, index_snapshot, files) ==
    { f \in filepaths : /\ get_thumbnail_cache_path(f) \notin index_snapshot
                        /\ get_thumbnail_cache_path(f) \notin files }

PrecacheDiscovered(filepaths, index_snapshot, files) ==
    { get_thumbnail_cache_path(f) :
        f \in { g \in filepaths : /\ get_thumbnail_cache_path(g) \notin index_snapshot
                                  /\ get_thumbnail_cache_path(g) \in files } }

\* The calls of precache_all_thumbnails and the worker threads.
NumCallers == 2

Clients     == 1..NumCallers
WorkerSlots == 1..NumCallers

IdleCaller == [pc |-> "idle", result |-> "none", saw |-> FALSE, busy |-> FALSE,
               started |-> FALSE]

ExitPaths == {"completed", "cache_dir_error", "database_error", "empty_library",
              "panic", "spawn_failure"}

\* The accepted passes that have not ended: calls between the swap and the
\* spawn, and live workers.
PassesInProgress ==
    Cardinality({ c \in Clients : callers[c].pc = "spawning" })
      + Cardinality({ w \in WorkerSlots : workers[w] # "none" })

\* The number of records in the chunks of a scan that were, or were not,
\* committed.
RECURSIVE RecordsInChunks(_, _, _)
RecordsInChunks(chunks, fails, committed) ==
    IF chunks = <<>> THEN 0
    ELSE (IF (fails[1] = NoFailure) = committed THEN Len(chunks[1]) ELSE 0)
           + RecordsInChunks(Tail(chunks), Tail(fails), committed)

\* C16: when a scan has emitted scan-complete, every write chunk was
\* attempted; the records of every committed chunk are stored and those of a
\* failed chunk are not; the event's indexed count is the number of records
\* in committed chunks and its error count is at least the number of records
\* in failed chunks.
C16_ChunksCommitIndependently ==
    (last_scan # None /\ ~ScanIdle) =>
        /\ last_scan.writes = Len(last_scan.chunks)
        /\ \A k \in DOMAIN last_scan.chunks :
             \A j \in DOMAIN last_scan.chunks[k] :
                LET rec == last_scan.chunks[k][j]
                IN  IF last_scan.fails[k] = NoFailure
                    THEN \E r \in images : /\ r.filepath = rec.filepath
                                           /\ r.file_mtime = rec.file_mtime
                    ELSE \A r \in images :
                           r.filepath = rec.filepath => r \in last_scan.before
        /\ last_scan.event.indexed =
             RecordsInChunks(last_scan.chunks, last_scan.fails, TRUE)
        /\ last_scan.event.errors >=
             RecordsInChunks(last_scan.chunks, last_scan.fails, FALSE)

\* A scan whose first write chunk failed and whose second was committed has
\* emitted scan-complete.
C16_Witness ==
    /\ last_scan # None
    /\ ~ScanIdle
    /\ Len(last_scan.chunks) = 2
    /\ last_scan.fails[1] # NoFailure
    /\ last_scan.fails[2] = NoFailure
    /\ last_scan.event.indexed = 1
    /\ last_scan.event.errors = 1

-----------------------------------------------------------------------------
(* Specification SpecPrecache: clients call precache_all_thumbnails at any  *)
(* time while images are indexed; every step of a pass may fail.             *)

InitPrecache ==
    /\ images = {}
    /\ tags = {}
    /\ image_tags = {}
    /\ next_image_id = 1
    /\ next_tag_id = 1
    /\ thumbnail_precache_running = FALSE
    /\ callers = [c \in Clients |-> IdleCaller]
    /\ workers = [w \in WorkerSlots |-> "none"]
    /\ exits = {}
    /\ NoTraversal
    /\ NoQuery
    /\ NoWrites
    /\ NoScan
    /\ NoCache
    /\ NoThumbs

\* A scan indexes one more image.
IndexImage ==
    /\ \E p \in ScanPaths :
         /\ \A r \in images : r.filepath # p
         /\ Commit(bulk_upsert_with_tags(DB,
                << BulkRecordOf([path |-> p, file_mtime |-> 100]) >>, NoFailure).db)
    /\ UNCHANGED <<thumbVars, cursorVars, queryVars, writeVars, scanVars, precacheVars, cacheVars>>

\* precache_all_thumbnails up to the spawn: the compare_exchange(false, true).
PrecacheCall(c) ==
    /\ callers[c].pc = "idle"
    /\ LET cas == compare_exchange(thumbnail_precache_running, FALSE, TRUE)
       IN  /\ thumbnail_precache_running' = cas.flag
           /\ callers' = [callers EXCEPT ![c] =
                  [pc      |-> IF cas.ok THEN "spawning" ELSE "returned",
                   result  |-> IF cas.ok THEN "none" ELSE "already_running",
                   saw     |-> thumbnail_precache_running,
                   busy    |-> PassesInProgress > 0,
                   started |-> FALSE]]
    /\ UNCHANGED <<thumbVars, dbVars, cursorVars, queryVars, writeVars, scanVars, workers, exits,
                   cacheVars>>

\* std::thread::Builder::spawn succeeds: the worker exists, the call returns Ok.
SpawnWorker(c) ==
    /\ callers[c].pc = "spawning"
    /\ \E w \in WorkerSlots :
         /\ workers[w] = "none"
         /\ \A v \in WorkerSlots : v < w => workers[v] # "none"
         /\ workers' = [workers EXCEPT ![w] = "spawned"]
    /\ callers' = [callers EXCEPT ![c].pc = "returned", ![c].result = "ok",
                                  ![c].started = TRUE]
    /\ UNCHANGED <<thumbVars, dbVars, cursorVars, queryVars, writeVars, scanVars,
                   thumbnail_precache_running, exits, cacheVars>>

\* spawn fails: map_err stores false in the flag and the call returns the error.
SpawnFails(c) ==
    /\ callers[c].pc = "spawning"
    /\ thumbnail_precache_running' = FALSE
    /\ callers' = [callers EXCEPT ![c].pc = "returned", ![c].result = "spawn_failed"]
    /\ exits' = exits \cup {"spawn_failure"}
    /\ UNCHANGED <<thumbVars, dbVars, cursorVars, queryVars, writeVars, scanVars, workers,
                   cacheVars>>

\* The client has the result of its call and may call again.
CallReturns(c) ==
    /\ callers[c].pc = "returned"
    /\ callers' = [callers EXCEPT ![c] = IdleCaller]
    /\ UNCHANGED <<thumbVars, dbVars, cursorVars, queryVars, writeVars, scanVars,
                   thumbnail_precache_running, workers, exits, cacheVars>>

\* The worker closure ends by the exit path `how`: its locals are
\* dropped, the RunningGuard among them.
WorkerExits(w, how) ==
    /\ workers' = [workers EXCEPT ![w] = "none"]
    /\ thumbnail_precache_running' = RunningGuard_drop(thumbnail_precache_running)
    /\ exits' = exits \cup {how}

\* let _running_guard = RunningGuard { flag: running_flag_for_worker };
WorkerStarts(w) ==
    /\ workers[w] = "spawned"
    /\ workers' = [workers EXCEPT ![w] = "guarded"]
    /\ UNCHANGED <<thumbVars, dbVars, cursorVars, queryVars, writeVars, scanVars,
                   thumbnail_precache_running, callers, exits, cacheVars>>

\* image_processing::prepare_cache_dir(&cache_dir)
WorkerPreparesCacheDir(w) ==
    /\ workers[w] = "guarded"
    /\ \/ /\ workers' = [workers EXCEPT ![w] = "prepared"]
          /\ UNCHANGED <<thumbVars, thumbnail_precache_running, exits>>
       \/ WorkerExits(w, "cache_dir_error")
    /\ UNCHANGED <<thumbVars, dbVars, cursorVars, queryVars, writeVars, scanVars, callers,
                   cacheVars>>

\* db.get_all_image_filepaths_desc(), then if total == 0 { ...; return }
WorkerReadsFilepaths(w) ==
    /\ workers[w] = "prepared"
    /\ \E fail \in BOOLEAN :
         LET all_filepaths == get_all_image_filepaths_desc(DB, fail)
         IN  IF all_filepaths = Err THEN WorkerExits(w, "database_error")
             ELSE IF Cardinality(all_filepaths.ok) = 0
                  THEN WorkerExits(w, "empty_library")
                  ELSE /\ workers' = [workers EXCEPT ![w] = "generating"]
                       /\ UNCHANGED <<thumbVars, thumbnail_precache_running, exits>>
    /\ UNCHANGED <<thumbVars, dbVars, cursorVars, queryVars, writeVars, scanVars, callers,
                   cacheVars>>

\* The classification loop, generate_thumbnails over the pending sources (any
\* of them may fail to decode), the index and failed-set updates, and the
\* completion event.
WorkerGenerates(w) ==
    /\ workers[w] = "generating"
    /\ LET filepaths  == { r.filepath : r \in images }
           pending    == PrecachePending(filepaths, thumbnail_index, cache_files)
           discovered == PrecacheDiscovered(filepaths, thumbnail_index, cache_files)
       IN  \E generated \in SUBSET pending :
             LET keys == { get_thumbnail_cache_path(f) : f \in generated }
             IN  /\ cache_files' = cache_files \cup keys
                 /\ thumbnail_index' = thumbnail_index \cup discovered \cup keys
                 /\ failed_thumbnail_sources' =
                      (failed_thumbnail_sources \ generated) \cup (pending \ generated)
    /\ WorkerExits(w, "completed")
    /\ UNCHANGED <<thumbVars, dbVars, cursorVars, queryVars, writeVars, scanVars, callers, last_op>>

\* A panic in the worker once the guard exists: unwinding drops the guard.
WorkerPanics(w) ==
    /\ workers[w] \in {"guarded", "prepared", "generating"}
    /\ WorkerExits(w, "panic")
    /\ UNCHANGED <<thumbVars, dbVars, cursorVars, queryVars, writeVars, scanVars, callers,
                   cacheVars>>

NextPrecache ==
    \/ IndexImage
    \/ \E c \in Clients : PrecacheCall(c)
    \/ \E c \in Clients : SpawnWorker(c)
    \/ \E c \in Clients : SpawnFails(c)
    \/ \E c \in Clients : CallReturns(c)
    \/ \E w \in WorkerSlots : WorkerStarts(w)
    \/ \E w \in WorkerSlots : WorkerPreparesCacheDir(w)
    \/ \E w \in WorkerSlots : WorkerReadsFilepaths(w)
    \/ \E w \in WorkerSlots : WorkerGenerates(w)
    \/ \E w \in WorkerSlots : WorkerPanics(w)

SpecPrecache == InitPrecache /\ [][NextPrecache]_vars

\* C8: at most one full-library precache pass is in progress at any time, and
\* a call that finds the run flag set has returned "already running" at once
\* and started no worker.
C8_AtMostOnePrecachePass ==
    /\ PassesInProgress <= 1
    /\ \A c \in Clients :
         (callers[c].pc # "idle" /\ callers[c].saw) =>
             /\ callers[c].pc = "returned"
             /\ callers[c].result = "already_running"
             /\ ~callers[c].started

\* A second call was rejected while the worker of the first is generating.
C8_Witness ==
    /\ \E c \in Clients : callers[c].result = "already_running"
    /\ \E w \in WorkerSlots : workers[w] = "generating"

\* C9: whenever no accepted pass is in progress the run flag is clear, so a
\* call is rejected only while a pass is in progress, whichever way the
\* earlier passes ended.
C9_RunFlagClearedOnEveryExit ==
    /\ PassesInProgress = 0 => ~thumbnail_precache_running
    /\ \A c \in Clients : callers[c].result = "already_running" => callers[c].busy

\* Passes have ended in each of the six ways and a later call is accepted.
C9_Witness ==
    /\ exits = ExitPaths
    /\ \E c \in Clients : callers[c].pc = "spawning"

-----------------------------------------------------------------------------
(* Deleting and moving images (commands/delete.rs).  The handlers work on   *)
(* the files on disk, the cache directory, the two in-memory sets and the   *)
(* database; fs = [disk, cache_files, thumbnail_index,                       *)
(* failed_thumbnail_sources].                                               *)

FS ==
    [disk |-> disk, cache_files |-> cache_files, thumbnail_index |-> thumbnail_index,
     failed_thumbnail_sources |-> failed_thumbnail_sources]

\* A path: its directory and its file name, a stem followed by the _<n>
\* suffixes a move has given it.
FilePath(dir, name) == [dir |-> dir, name |-> name]

\* A delete on a connection without PRAGMA foreign_keys=ON: no cascade.
delete_images_by_idsNoCascade(db, ids, fail) ==
    IF ids = {} THEN [db |-> db, result |-> Ok(0)]
    ELSE IF fail THEN [db |-> db, result |-> Err]
    ELSE [db |-> [db EXCEPT
                    !.images = { r \in @ : r.id \notin ids },
                    !.tags = { t \in @ : \E it \in db.image_tags : it.tag_id = t.id }],
          result |-> Ok(Cardinality({ r \in db.images : r.id \in ids }))]

\* DELETE FROM images WHERE id IN (...), the cascade to image_tags, and the
\* pruning of the tags no image carries any more.
delete_images_by_ids(db, ids, fail) ==
    LET links == { it \in db.image_tags : it.image_id \notin ids }
    IN  IF ids = {} THEN [db |-> db, result |-> Ok(0)]
        ELSE IF fail THEN [db |-> db, result |-> Err]
        ELSE [db |-> [db EXCEPT
                        !.images = { r \in @ : r.id \notin ids },
                        !.image_tags = links,
                        !.tags = { t \in @ : \E it \in links : it.tag_id = t.id }],
              result |-> Ok(Cardinality({ r \in db.images : r.id \in ids }))]

\* UPDATE images SET filepath = ?1, filename = ?2, directory = ?3 WHERE id = ?4
update_image_location(db, image_id, filepath, fail) ==
    IF fail THEN [db |-> db, result |-> Err]
    ELSE [db |-> [db EXCEPT !.images =
                    { IF r.id = image_id THEN [r EXCEPT !.filepath = filepath] ELSE r
                      : r \in @ }],
          result |-> Ok(\E r \in db.images : r.id = image_id)]

\* A removal that leaves the key of the thumbnail in the index.
remove_thumbnail_cache_fileKeepsKey(fs, source_path, remove_ok) ==
    LET thumbnail_key == get_thumbnail_cache_path(source_path)
    IN  IF thumbnail_key \in fs.cache_files /\ remove_ok
        THEN [fs |-> [fs EXCEPT !.cache_files = @ \ {thumbnail_key}], removed |-> 1]
        ELSE [fs |-> fs, removed |-> 0]

\* The key leaves the index; the cache file, if there is one, is removed,
\* which may fail.
remove_thumbnail_cache_file(fs, source_path, remove_ok) ==
    LET thumbnail_key == get_thumbnail_cache_path(source_path)
        unindexed     == [fs EXCEPT !.thumbnail_index = @ \ {thumbnail_key}]
    IN  IF thumbnail_key \notin fs.cache_files THEN [fs |-> unindexed, removed |-> 0]
        ELSE IF remove_ok
             THEN [fs |-> [unindexed EXCEPT !.cache_files = @ \ {thumbnail_key}],
                   removed |-> 1]
             ELSE [fs |-> unindexed, removed |-> 0]

\* The source key leaves the index; the cache file, if there is one, is moved
\* to the destination's cache path, and on success the destination key is
\* inserted.
move_thumbnail_cache_file(fs, source_path, destination_path, move_ok) ==
    LET source_key      == get_thumbnail_cache_path(source_path)
        destination_key == get_thumbnail_cache_path(destination_path)
        unindexed       == [fs EXCEPT !.thumbnail_index = @ \ {source_key}]
    IN  IF source_key \notin fs.cache_files THEN unindexed
        ELSE IF ~move_ok THEN unindexed
        ELSE [unindexed EXCEPT
                !.cache_files = (@ \ {source_key}) \cup {destination_key},
                !.thumbnail_index = @ \cup {destination_key}]

\* for suffix in 0..10_000usize
MoveSuffixLimit == 10000

\* The first free candidate in the destination directory: the file's own
\* name, then <stem>_<suffix>.<ext>; a candidate is taken when a file exists
\* at it or another image is indexed at it.
RECURSIVE resolve_move_destination_path(_, _, _, _, _, _)
resolve_move_destination_path(db, files, source_path, directory, image_id, suffix) ==
    LET candidate == FilePath(directory,
                              IF suffix = 0 THEN source_path.name
                              ELSE Append(source_path.name, suffix))
    IN  IF suffix >= MoveSuffixLimit THEN Err
        ELSE IF candidate = source_path THEN Ok(candidate)
        ELSE IF \/ candidate \in DOMAIN files
                \/ \E r \in db.images : r.filepath = candidate /\ r.id # image_id
             THEN resolve_move_destination_path(db, files, source_path, directory,
                                                image_id, suffix + 1)
             ELSE Ok(candidate)

\* std::fs::rename (or copy and remove) of a file that exists.
move_file_with_fallback(files, source, destination) ==
    [p \in (DOMAIN files \ {source}) \cup {destination} |->
        IF p = destination THEN files[source] ELSE files[p]]

RemoveFile(files, path) == [p \in DOMAIN files \ {path} |-> files[p]]

\* for (_, filepath) in &deletable { ... remove_thumbnail_cache_file(...) }
RECURSIVE remove_thumbnails(_, _, _, _)
remove_thumbnails(fs, deletable, k, thumb_ok) ==
    IF k > Len(deletable) THEN fs
    ELSE remove_thumbnails(
             remove_thumbnail_cache_file(fs, deletable[k].filepath,
                                         thumb_ok[deletable[k].id]).fs,
             deletable, k + 1, thumb_ok)

\* What delete_images reports when it did nothing.
NothingDeleted(db, fs, result) ==
    [db |-> db, fs |-> fs, result |-> result, gone |-> {}, deleted_ids |-> {},
     blocked_protected_ids |-> {}, failed_paths |-> {}]

\* A delete that removes the database row of every unprotected record, also
\* of one whose file could not be deleted.
delete_recordsDropsFailedRows(records, db, fs, o) ==
    LET blocked      == { r \in records : r.is_locked \/ r.is_favorite }
        failed_files == { r \in records \ blocked :
                            r.filepath \in DOMAIN fs.disk /\ ~o.file_ok[r.id] }
        deletable    == (records \ blocked) \ failed_files
        paths_gone   == { r.filepath : r \in deletable }
        files        == [p \in DOMAIN fs.disk \ paths_gone |-> fs.disk[p]]
        thumbs       == remove_thumbnails([fs EXCEPT !.disk = files],
                                          OrderBy(deletable, NewestFirst), 1, o.thumb_ok)
        after        == [thumbs EXCEPT !.failed_thumbnail_sources = @ \ paths_gone]
        removed      == delete_images_by_ids(db, { r.id : r \in records \ blocked },
                                             o.db_fail)
    IN  [db |-> removed.db, fs |-> after, result |-> removed.result,
         gone |-> IF removed.result = Err THEN {} ELSE paths_gone,
         deleted_ids |-> { r.id : r \in deletable },
         blocked_protected_ids |-> { r.id : r \in blocked },
         failed_paths |-> { r.filepath : r \in failed_files }]

\* delete_images after get_images_by_ids returned `records`: the protected
\* records are blocked, the file of each other record is deleted, and the
\* thumbnail, the failed-source entry and the database row of the records
\* whose file is gone are removed.
delete_records(records, db, fs, o) ==
    LET blocked      == { r \in records : r.is_locked \/ r.is_favorite }
        failed_files == { r \in records \ blocked :
                            r.filepath \in DOMAIN fs.disk /\ ~o.file_ok[r.id] }
        deletable    == (records \ blocked) \ failed_files
        paths_gone   == { r.filepath : r \in deletable }
        files        == [p \in DOMAIN fs.disk \ paths_gone |-> fs.disk[p]]
        thumbs       == remove_thumbnails([fs EXCEPT !.disk = files],
                                          OrderBy(deletable, NewestFirst), 1, o.thumb_ok)
        after        == [thumbs EXCEPT !.failed_thumbnail_sources = @ \ paths_gone]
        removed      == delete_images_by_ids(db, { r.id : r \in deletable }, o.db_fail)
    IN  [db |-> removed.db, fs |-> after, result |-> removed.result,
         gone |-> IF removed.result = Err THEN {} ELSE paths_gone,
         deleted_ids |-> { r.id : r \in deletable },
         blocked_protected_ids |-> { r.id : r \in blocked },
         failed_paths |-> { r.filepath : r \in failed_files }]

\* delete_images; o says which of its fallible steps fail.
delete_images(db, fs, ids, o) ==
    LET records == { r \in db.images : r.id \in ids }
    IN  IF ids = {} THEN NothingDeleted(db, fs, Ok(0))
        ELSE IF o.read_fail THEN NothingDeleted(db, fs, Err)
        ELSE IF records = {} THEN NothingDeleted(db, fs, Ok(0))
        ELSE delete_records(records, db, fs, o)

\* The loop of move_images_to_directory over the records;
\* st = [db, fs, gone, result], o says which fallible steps of each record fail.
RECURSIVE move_records(_, _, _, _, _)
move_records(st, records, k, directory, o) ==
    IF k > Len(records) THEN st
    ELSE
      LET record      == records[k]
          source_path == record.filepath
          oc          == o[record.id]
          resolved    == IF oc.resolve_fail THEN Err
                         ELSE resolve_move_destination_path(st.db, st.fs.disk, source_path,
                                                            directory, record.id, 0)
          destination_path == resolved.ok
          moved       == [st.fs EXCEPT
                            !.disk = move_file_with_fallback(@, source_path, destination_path)]
          thumbed     == move_thumbnail_cache_file(moved, source_path, destination_path,
                                                   oc.thumb_ok)
          updated     == update_image_location(st.db, record.id, destination_path, oc.db_fail)
          relabelled  == [thumbed EXCEPT !.failed_thumbnail_sources =
                            IF source_path \in @
                            THEN (@ \ {source_path}) \cup {destination_path} ELSE @]
          moved_back  == IF oc.back_ok
                         THEN [thumbed EXCEPT !.disk =
                                 move_file_with_fallback(@, destination_path, source_path)]
                         ELSE thumbed
          rolled_back == move_thumbnail_cache_file(moved_back, destination_path, source_path,
                                                   oc.thumb_back_ok)
      IN  IF source_path \notin DOMAIN st.fs.disk
          THEN move_records(st, records, k + 1, directory, o)
          ELSE IF source_path.dir = directory
          THEN move_records(st, records, k + 1, directory, o)
          ELSE IF resolved = Err THEN [st EXCEPT !.result = Err]
          ELSE IF destination_path = source_path
          THEN move_records(st, records, k + 1, directory, o)
          ELSE IF ~oc.move_ok THEN move_records(st, records, k + 1, directory, o)
          ELSE IF updated.result = Ok(TRUE)
          THEN move_records([st EXCEPT !.db = updated.db, !.fs = relabelled,
                                       !.gone = @ \cup {source_path}],
                            records, k + 1, directory, o)
          ELSE move_records([st EXCEPT !.fs = rolled_back], records, k + 1, directory, o)

move_images_to_directory(db, fs, ids, directory, o) ==
    LET records == OrderBy({ r \in db.images : r.id \in ids }, NewestFirst)
        start   == [db |-> db, fs |-> fs, gone |-> {}, result |-> Ok(0)]
    IN  IF ids = {} THEN start
        ELSE IF o.read_fail THEN [start EXCEPT !.result = Err]
        ELSE move_records(start, records, 1, directory, o.records)

\* get_thumbnail_path (commands/thumbnails.rs): the cache path of a source,
\* generated on demand; o says whether the cache directory can be prepared
\* and whether the decode succeeds.
get_thumbnail_path(fs, filepath, o) ==
    LET primary_key == get_thumbnail_cache_path(filepath)
    IN  IF ~o.prepare_ok THEN fs
        ELSE IF primary_key \in fs.thumbnail_index THEN fs
        ELSE IF primary_key \in fs.cache_files
        THEN [fs EXCEPT !.thumbnail_index = @ \cup {primary_key},
                        !.failed_thumbnail_sources = @ \ {filepath}]
        ELSE IF filepath \in fs.failed_thumbnail_sources THEN fs
        ELSE IF filepath \in DOMAIN fs.disk /\ o.decode_ok
        THEN [fs EXCEPT !.cache_files = @ \cup {primary_key},
                        !.thumbnail_index = @ \cup {primary_key},
                        !.failed_thumbnail_sources = @ \ {filepath}]
        ELSE [fs EXCEPT !.failed_thumbnail_sources = @ \cup {filepath}]

-----------------------------------------------------------------------------
(* Specification SpecCache: thumbnails are requested on demand while images *)
(* are deleted and moved between two directories; any fallible step of a    *)
(* handler may fail.                                                        *)

NumCacheImages == 2

Dirs == {"a", "b"}

CachePathList ==
    << FilePath("a", <<"x">>), FilePath("b", <<"x">>), FilePath("a", <<"y">>) >>

CacheIds == 1..NumCacheImages

\* The outcomes of the fallible steps of one record of a move: the steps after
\* a failed one do not run.
MoveOutcomes ==
    { oc \in [resolve_fail : BOOLEAN, move_ok : BOOLEAN, thumb_ok : BOOLEAN,
              db_fail : BOOLEAN, back_ok : BOOLEAN, thumb_back_ok : BOOLEAN] :
        /\ oc.resolve_fail => (oc.move_ok /\ oc.thumb_ok /\ ~oc.db_fail)
        /\ ~oc.move_ok => (oc.thumb_ok /\ ~oc.db_fail)
        /\ ~oc.db_fail => (oc.back_ok /\ oc.thumb_back_ok) }

NoMoveFailure ==
    [resolve_fail |-> FALSE, move_ok |-> TRUE, thumb_ok |-> TRUE, db_fail |-> FALSE,
     back_ok |-> TRUE, thumb_back_ok |-> TRUE]

\* The outcomes of the steps a record of a move goes through: a step that
\* does not run, or has no file to work on, has no outcome of its own.
MoveOutcomesOf(has_thumbnail) ==
    { oc \in MoveOutcomes : ~has_thumbnail => oc.thumb_ok }

\* The outcomes of a move request: get_images_by_ids fails, or each record
\* that is not skipped has its own outcomes.
MoveRequestOutcomes(ids, directory) ==
    LET movable(i) == \E r \in images : /\ r.id = i
                                        /\ r.filepath \in DOMAIN disk
                                        /\ r.filepath.dir # directory
        cached(i)  == \E r \in images : /\ r.id = i
                                        /\ get_thumbnail_cache_path(r.filepath) \in cache_files
    IN  { [read_fail |-> TRUE, records |-> [i \in ids |-> NoMoveFailure]] }
          \cup { [read_fail |-> FALSE, records |-> f] :
                   f \in { g \in [ids -> MoveOutcomes] :
                             \A i \in ids : IF movable(i) THEN g[i] \in MoveOutcomesOf(cached(i))
                                            ELSE g[i] = NoMoveFailure } }

\* The booleans of the ids in `some`, TRUE for the other ids.
OutcomesOf(ids, some) ==
    { [i \in ids |-> i \notin some \/ i \in ok] : ok \in SUBSET (some \cap ids) }

\* The outcomes of a delete request: get_images_by_ids fails, or the removal
\* of each file and thumbnail there is and the final delete_images_by_ids
\* succeed or fail.
DeleteOutcomes(ids) ==
    LET with_file  == { r.id : r \in { q \in images : q.filepath \in DOMAIN disk } }
        with_thumb == { r.id : r \in { q \in images :
                            get_thumbnail_cache_path(q.filepath) \in cache_files } }
    IN  { [read_fail |-> TRUE, db_fail |-> FALSE, file_ok |-> [i \in ids |-> TRUE],
           thumb_ok |-> [i \in ids |-> TRUE]] }
          \cup { [read_fail |-> FALSE, db_fail |-> d, file_ok |-> f, thumb_ok |-> t] :
                   d \in BOOLEAN, f \in OutcomesOf(ids, with_file),
                   t \in OutcomesOf(ids, with_thumb) }

InitCache ==
    /\ \E protected \in {"none", "locked", "favorite"} :
         images = { [MakeRow(i, CachePathList[i], 1, NULL, Txt2ImgCode, FALSE, <<>>, 100)
                       EXCEPT !.is_locked = (i = 1 /\ protected = "locked"),
                              !.is_favorite = (i = 1 /\ protected = "favorite")]
                    : i \in CacheIds }
    /\ tags = {}
    /\ image_tags = {}
    /\ next_image_id = NumCacheImages + 1
    /\ next_tag_id = 1
    /\ \E missing \in {{}, {NumCacheImages}} :
         disk = [p \in { CachePathList[i] : i \in CacheIds \ missing } |-> 100]
    /\ last_scan = None
    /\ cache_files = {}
    /\ thumbnail_index = {}
    /\ failed_thumbnail_sources = {}
    /\ last_op = None
    /\ NoTraversal
    /\ NoQuery
    /\ NoWrites
    /\ NoPrecache
    /\ NoThumbs

SetFS(fs) ==
    /\ disk' = fs.disk
    /\ cache_files' = fs.cache_files
    /\ thumbnail_index' = fs.thumbnail_index
    /\ failed_thumbnail_sources' = fs.failed_thumbnail_sources

\* What the handler that has just returned did: the old paths of the images
\* it deleted or moved, and what the two sets held for them before.
Done(op, out) ==
    [op |-> op, result |-> out.result, gone |-> out.gone,
     indexed |-> { p \in out.gone : get_thumbnail_cache_path(p) \in thumbnail_index },
     failed  |-> out.gone \cap failed_thumbnail_sources]

GetThumbnailPath ==
    /\ last_op = None
    /\ \E r \in images, o \in [prepare_ok : BOOLEAN, decode_ok : BOOLEAN] :
         SetFS(get_thumbnail_path(FS, r.filepath, o))
    /\ UNCHANGED <<thumbVars, dbVars, cursorVars, queryVars, writeVars, last_scan, precacheVars,
                   last_op>>

DeleteImages ==
    /\ last_op = None
    /\ \E ids \in SUBSET CacheIds :
         \E o \in DeleteOutcomes(ids) :
           LET out == delete_images(DB, FS, ids, o)
           IN  /\ Commit(out.db)
               /\ SetFS(out.fs)
               /\ last_op' = Done("delete_images", out)
    /\ UNCHANGED <<thumbVars, cursorVars, queryVars, writeVars, last_scan, precacheVars>>

MoveImagesToDirectory ==
    /\ last_op = None
    /\ \E ids \in SUBSET CacheIds, directory \in Dirs :
         \E o \in MoveRequestOutcomes(ids, directory) :
           LET out == move_images_to_directory(DB, FS, ids, directory, o)
           IN  /\ Commit(out.db)
               /\ SetFS(out.fs)
               /\ last_op' = Done("move_images_to_directory", out)
    /\ UNCHANGED <<thumbVars, cursorVars, queryVars, writeVars, last_scan, precacheVars>>

\* The client has the result of the delete or move.
ClientContinues ==
    /\ last_op # None
    /\ last_op' = None
    /\ UNCHANGED <<thumbVars, dbVars, cursorVars, queryVars, writeVars, scanVars, precacheVars,
                   cache_files, thumbnail_index, failed_thumbnail_sources>>

NextCache ==
    \/ GetThumbnailPath
    \/ DeleteImages
    \/ MoveImagesToDirectory
    \/ ClientContinues

SpecCache == InitCache /\ [][NextCache]_vars

-----------------------------------------------------------------------------
(* Thumbnail generation.                                                    *)

\* What the encoder and the removal of the legacy file do: the JPEG is
\* written (and a legacy file removed, or left when its removal fails),
\* File::create fails, or the encoder fails after File::create made the file.
GenerationOutcomes == {"written", "written_legacy_kept", "create_failed", "encode_failed"}

\* The .webp candidate of get_thumbnail_candidate_paths.
legacy_thumbnail_path(source) == [hash |-> hash_path(source), ext |-> "webp"]

\* A generation that decodes and writes again what is cached already.
generate_single_thumbnailRewrites(files, cache, source, outcome) ==
    LET thumb_path == get_thumbnail_cache_path(source)
    IN  IF source \notin DOMAIN files
        THEN [cache_files |-> cache, result |-> Err, decoded |-> TRUE]
        ELSE IF files[source] = "bad"
        THEN [cache_files |-> cache, result |-> Err, decoded |-> TRUE]
        ELSE [cache_files |-> cache \cup {thumb_path}, result |-> Ok(thumb_path),
              decoded |-> TRUE]

\* generate_single_thumbnail: a cache file that exists is returned as it is;
\* the legacy file is returned for a source that is gone; a source that is
\* missing or does not decode is an error; when the JPEG cannot be written
\* the legacy file is returned if there is one, and the file File::create
\* made stays where it is.
generate_single_thumbnail(files, cache, source, outcome) ==
    LET thumb_path  == get_thumbnail_cache_path(source)
        legacy_path == legacy_thumbnail_path(source)
        has_legacy  == legacy_path \in cache
        created     == IF outcome = "create_failed" THEN cache
                       ELSE cache \cup {thumb_path}
    IN  IF thumb_path \in cache
        THEN [cache_files |-> cache, result |-> Ok(thumb_path), decoded |-> FALSE]
        ELSE IF source \notin DOMAIN files /\ has_legacy
        THEN [cache_files |-> cache, result |-> Ok(legacy_path), decoded |-> FALSE]
        ELSE IF source \notin DOMAIN files
        THEN [cache_files |-> cache, result |-> Err, decoded |-> TRUE]
        ELSE IF files[source] = "bad"
        THEN [cache_files |-> cache, result |-> Err, decoded |-> TRUE]
        ELSE IF outcome \in {"create_failed", "encode_failed"}
        THEN [cache_files |-> created,
              result |-> IF has_legacy THEN Ok(legacy_path) ELSE Err,
              decoded |-> TRUE]
        ELSE [cache_files |-> IF outcome = "written" THEN created \ {legacy_path}
                              ELSE created,
              result |-> Ok(thumb_path), decoded |-> TRUE]

\* ensure_thumbnail: prepare_cache_dir, then generate_single_thumbnail.
ensure_thumbnail(files, cache, source, prepare_ok, outcome) ==
    IF ~prepare_ok THEN [cache_files |-> cache, result |-> Err, decoded |-> FALSE]
    ELSE generate_single_thumbnail(files, cache, source, outcome)

\* paths.par_iter().filter_map(...): the (source, thumbnail) pairs of the
\* sources whose generation returned Ok, in the order of the input.
RECURSIVE generate_each(_, _, _, _, _)
generate_each(files, cache, sources, k, outcomes) ==
    IF k > Len(sources) THEN [cache_files |-> cache, generated |-> <<>>, decoded |-> {}]
    ELSE LET one  == generate_single_thumbnail(files, cache, sources[k], outcomes[k])
             rest == generate_each(files, one.cache_files, sources, k + 1, outcomes)
         IN  [cache_files |-> rest.cache_files,
              generated |-> (IF one.result = Err THEN <<>>
                             ELSE << <<sources[k], one.result.ok>> >>) \o rest.generated,
              decoded |-> (IF one.decoded THEN {k} ELSE {}) \cup rest.decoded]

\* generate_thumbnails: nothing is generated when the cache directory cannot
\* be prepared.
generate_thumbnails(files, cache, sources, prepare_ok, outcomes) ==
    IF ~prepare_ok THEN [cache_files |-> cache, generated |-> <<>>, decoded |-> {}]
    ELSE generate_each(files, cache, sources, 1, outcomes)

\* A resolution that leaves the inputs whose generation failed out.
RECURSIVE resolve_eachDropsFailures(_, _, _, _, _)
resolve_eachDropsFailures(files, cache, filepaths, k, outcomes) ==
    IF k > Len(filepaths) THEN [cache_files |-> cache, mappings |-> <<>>, decoded |-> {}]
    ELSE LET one  == generate_single_thumbnail(files, cache, filepaths[k], outcomes[k])
             rest == resolve_eachDropsFailures(files, one.cache_files, filepaths, k + 1,
                                               outcomes)
         IN  [cache_files |-> rest.cache_files,
              mappings |-> (IF one.result = Err THEN <<>>
                            ELSE << <<filepaths[k], one.result.ok>> >>) \o rest.mappings,
              decoded |-> (IF one.decoded THEN {k} ELSE {}) \cup rest.decoded]

\* resolve_thumbnail_paths: one (source, thumbnail) pair per input; the
\* thumbnail is the source itself when the cache directory cannot be prepared
\* or generation fails.
RECURSIVE resolve_each(_, _, _, _, _)
resolve_each(files, cache, filepaths, k, outcomes) ==
    IF k > Len(filepaths) THEN [cache_files |-> cache, mappings |-> <<>>, decoded |-> {}]
    ELSE LET source == filepaths[k]
             thumb  == get_thumbnail_cache_path(source)
             one    == IF thumb \in cache
                       THEN [cache_files |-> cache, result |-> Ok(thumb), decoded |-> FALSE]
                       ELSE generate_single_thumbnail(files, cache, source, outcomes[k])
             rest   == resolve_each(files, one.cache_files, filepaths, k + 1, outcomes)
         IN  [cache_files |-> rest.cache_files,
              mappings |-> << <<source, IF one.result = Err THEN source
                                        ELSE one.result.ok>> >> \o rest.mappings,
              decoded |-> (IF one.decoded THEN {k} ELSE {}) \cup rest.decoded]

resolve_thumbnail_paths(files, cache, filepaths, prepare_ok, outcomes) ==
    IF ~prepare_ok
    THEN [cache_files |-> cache,
          mappings |-> [k \in 1..Len(filepaths) |-> <<filepaths[k], filepaths[k]>>],
          decoded |-> {}]
    ELSE resolve_each(files, cache, filepaths, 1, outcomes)

-----------------------------------------------------------------------------
(* Specification SpecThumbs: the operations that touch the thumbnail cache  *)
(* of one image run concurrently, a step at a time.  A step is one lock     *)
(* scope of the index or of the failed-source set, or the filesystem and    *)
(* database calls between two lock scopes.  Thumbnails are looked up for    *)
(* the paths the library has; the cache directory holds no legacy file.     *)

MaxInFlight == 2

Lookups == {"get_thumbnail_path", "get_thumbnail_paths"}

\* The immediate batch of a scan and its thumbnail-warmup thread.
Generators == {"scan", "warmup"}

Kinds == Lookups \cup Generators \cup {"precache", "delete_images", "move_images"}

ThumbSources == {FilePath("a", <<"x">>), FilePath("b", <<"x">>)}

IdleOp ==
    [pc |-> "idle", id |-> 0, path |-> None, directory |-> "", dest |-> None,
     back |-> FALSE, known |-> FALSE, decoded |-> FALSE, result |-> None]

InFlight == { k \in Kinds : ops[k].pc # "idle" }

\* No operation is between its first and its last step.
Quiescent == \A k \in Kinds : ops[k].pc \in {"idle", "done"}

KeyOf(k) == get_thumbnail_cache_path(ops[k].path)

thumbFrame == <<cursorVars, queryVars, writeVars, last_scan, precacheVars, last_op,
                cache_dir, storeVars>>

InitThumbs ==
    /\ images = { MakeRow(1, FilePath("a", <<"x">>), 1, NULL, Txt2ImgCode,
                          FALSE, <<>>, 100) }
    /\ tags = {}
    /\ image_tags = {}
    /\ next_image_id = 2
    /\ next_tag_id = 1
    /\ \E content \in {"good", "bad"} :
         disk = [p \in {FilePath("a", <<"x">>)} |-> content]
    /\ last_scan = None
    /\ NoCache
    /\ ops = [k \in Kinds |-> IdleOp]
    /\ decode_failed = {}
    /\ cache_dir = TRUE
    /\ NoStore
    /\ NoTraversal
    /\ NoQuery
    /\ NoWrites
    /\ NoPrecache

Begin(k) ==
    /\ ops[k].pc = "idle"
    /\ Cardinality(InFlight) < MaxInFlight

Set(k, o) == ops' = [ops EXCEPT ![k] = o]

Goto(k, pc_next) == Set(k, [ops[k] EXCEPT !.pc = pc_next])

\* A lookup keeps what it returns until the caller has it.
Returned(k, result) ==
    IF k \in Lookups THEN [ops[k] EXCEPT !.pc = "done", !.result = result]
    ELSE IdleOp

Finish(k, result) == Set(k, Returned(k, result))

\* The source at path p is not what the operations in flight knew it to be.
Forget(k, o, p) ==
    ops' = [j \in Kinds |->
              IF j = k THEN o
              ELSE IF ops[j].path = p THEN [ops[j] EXCEPT !.known = FALSE]
              ELSE ops[j]]

\* Operation k has the outcome of a generation attempt for its path.
Attempted(k, failed, decoded, pc_next) ==
    LET p == ops[k].path
        o == IF pc_next = "return" THEN Returned(k, p)
             ELSE [ops[k] EXCEPT !.pc = pc_next,
                                 !.decoded = @ \/ (decoded /\ ops[k].known)]
    IN  IF failed
        THEN /\ decode_failed' = decode_failed \cup {p}
             /\ Set(k, o)
        ELSE /\ decode_failed' = decode_failed \ {p}
             /\ Forget(k, o, p)

\* The read locks an operation holds where it is: get_thumbnail_paths takes
\* the read guard of the failed set and the read lock of the index for its
\* classification loop, and keeps the guard until the keys it discovered on
\* disk are in the index.  Every other lock scope is within one step.
Holds(k) ==
    IF k # "get_thumbnail_paths" THEN {}
    ELSE IF ops[k].pc = "exists_locked" THEN {"failed_thumbnail_sources", "thumbnail_index"}
    ELSE IF ops[k].pc = "discovered" THEN {"failed_thumbnail_sources"}
    ELSE {}

\* A write lock is granted when no other operation holds the lock.
CanWrite(k, lock) == \A j \in Kinds \ {k} : lock \notin Holds(j)

\* The steps that are a filesystem call: existence check, decode and write,
\* delete, move.
FilesystemSteps ==
    {"exists", "exists_locked", "ensure", "resolve", "generate", "delete_file",
     "cache_remove", "move_file", "move_cache", "move_back"}

\* get_thumbnail_path ------------------------------------------------------

LookupStart(p) ==
    LET k == "get_thumbnail_path"
    IN  /\ Begin(k)
        /\ \E r \in images : r.filepath = p
        /\ \E prepare_ok \in BOOLEAN :
             Set(k, [IdleOp EXCEPT !.pc = IF prepare_ok THEN "index_read" ELSE "done",
                                   !.path = p,
                                   !.known = p \in decode_failed,
                                   !.result = IF prepare_ok THEN None ELSE p])
        /\ UNCHANGED <<dbVars, disk, cacheVars, decode_failed, thumbFrame>>

LookupIndexRead ==
    LET k == "get_thumbnail_path"
    IN  /\ ops[k].pc = "index_read"
        /\ IF KeyOf(k) \in thumbnail_index THEN Finish(k, KeyOf(k))
           ELSE Goto(k, "exists")
        /\ UNCHANGED <<dbVars, disk, cacheVars, decode_failed, thumbFrame>>

LookupExists ==
    LET k == "get_thumbnail_path"
    IN  /\ ops[k].pc = "exists"
        /\ Goto(k, IF KeyOf(k) \in cache_files THEN "insert" ELSE "failed_read")
        /\ UNCHANGED <<dbVars, disk, cacheVars, decode_failed, thumbFrame>>

LookupFailedRead ==
    LET k == "get_thumbnail_path"
    IN  /\ ops[k].pc = "failed_read"
        /\ IF ops[k].path \in failed_thumbnail_sources THEN Finish(k, ops[k].path)
           ELSE Goto(k, "ensure")
        /\ UNCHANGED <<dbVars, disk, cacheVars, decode_failed, thumbFrame>>

LookupEnsure ==
    LET k == "get_thumbnail_path"
    IN  /\ ops[k].pc = "ensure"
        /\ \E prepare_ok \in BOOLEAN, outcome \in GenerationOutcomes :
             LET out == ensure_thumbnail(disk, cache_files, ops[k].path, prepare_ok,
                                         outcome)
             IN  /\ cache_files' = out.cache_files
                 /\ Attempted(k, out.result = Err, out.decoded,
                              IF out.result = Err THEN "record_failure" ELSE "insert")
        /\ UNCHANGED <<dbVars, disk, thumbnail_index, failed_thumbnail_sources, last_op,
                       thumbFrame>>

\* The lock scopes that follow a generation or a discovery ------------------

\* index.insert(key) of a thumbnail that was generated.
IndexInsert(k) ==
    /\ ops[k].pc = "insert"
    /\ CanWrite(k, "thumbnail_index")
    /\ thumbnail_index' = thumbnail_index \cup {KeyOf(k)}
    /\ Goto(k, "remove")
    /\ UNCHANGED <<dbVars, disk, cache_files, failed_thumbnail_sources, decode_failed,
                   thumbFrame>>

\* failed.remove(source) of a thumbnail that was generated.
FailedRemove(k) ==
    /\ ops[k].pc = "remove"
    /\ CanWrite(k, "failed_thumbnail_sources")
    /\ failed_thumbnail_sources' = failed_thumbnail_sources \ {ops[k].path}
    /\ Finish(k, KeyOf(k))
    /\ UNCHANGED <<dbVars, disk, cache_files, thumbnail_index, decode_failed, thumbFrame>>

\* failed.insert(source) of a generation that failed.
FailedInsert(k) ==
    /\ ops[k].pc = "record_failure"
    /\ CanWrite(k, "failed_thumbnail_sources")
    /\ failed_thumbnail_sources' = failed_thumbnail_sources \cup {ops[k].path}
    /\ Finish(k, ops[k].path)
    /\ UNCHANGED <<dbVars, disk, cache_files, thumbnail_index, decode_failed, thumbFrame>>

\* index.insert(key) of a cache file that was found on disk.
DiscoveredInsert(k) ==
    /\ ops[k].pc = "discovered"
    /\ CanWrite(k, "thumbnail_index")
    /\ thumbnail_index' = thumbnail_index \cup {KeyOf(k)}
    /\ Finish(k, KeyOf(k))
    /\ UNCHANGED <<dbVars, disk, cache_files, failed_thumbnail_sources, decode_failed,
                   thumbFrame>>

\* get_thumbnail_paths -----------------------------------------------------

BatchStart(p) ==
    LET k == "get_thumbnail_paths"
    IN  /\ Begin(k)
        /\ \E r \in images : r.filepath = p
        /\ Set(k, [IdleOp EXCEPT !.pc = "classify", !.path = p,
                                 !.known = p \in decode_failed])
        /\ UNCHANGED <<dbVars, disk, cacheVars, decode_failed, thumbFrame>>

\* let failed_guard = failed_thumbnail_sources.read().ok();
\* if let Ok(index) = thumbnail_index.read() { ... index.contains(&primary_key)
BatchClassify ==
    LET k == "get_thumbnail_paths"
    IN  /\ ops[k].pc = "classify"
        /\ IF KeyOf(k) \in thumbnail_index THEN Finish(k, KeyOf(k))
           ELSE Goto(k, "exists_locked")
        /\ UNCHANGED <<dbVars, disk, cacheVars, decode_failed, thumbFrame>>

\* ... else if primary_path.exists() ... else if failed.contains(filepath):
\* the existence check runs inside the scope of both read locks; the guard
\* of the failed set is dropped after the discovered keys were inserted.
BatchExists ==
    LET k == "get_thumbnail_paths"
    IN  /\ ops[k].pc = "exists_locked"
        /\ IF KeyOf(k) \in cache_files THEN Goto(k, "discovered")
           ELSE IF ops[k].path \in failed_thumbnail_sources THEN Finish(k, ops[k].path)
           ELSE Goto(k, "resolve")
        /\ UNCHANGED <<dbVars, disk, cacheVars, decode_failed, thumbFrame>>

BatchResolve ==
    LET k == "get_thumbnail_paths"
    IN  /\ ops[k].pc = "resolve"
        /\ \E prepare_ok \in BOOLEAN, outcome \in GenerationOutcomes :
             LET out   == resolve_thumbnail_paths(disk, cache_files, <<ops[k].path>>,
                                                  prepare_ok, <<outcome>>)
                 thumb == out.mappings[1][2]
             IN  /\ cache_files' = out.cache_files
                 /\ Attempted(k, thumb = ops[k].path, out.decoded # {},
                              IF thumb = ops[k].path THEN "record_failure" ELSE "insert")
        /\ UNCHANGED <<dbVars, disk, thumbnail_index, failed_thumbnail_sources, last_op,
                       thumbFrame>>

\* The scan's immediate batch, its warm-up thread, the precache pass -------

GenerateStart(k, p) ==
    /\ k \in Generators
    /\ Begin(k)
    /\ p \in DOMAIN disk
    /\ Set(k, [IdleOp EXCEPT !.pc = "generate", !.path = p])
    /\ UNCHANGED <<dbVars, disk, cacheVars, decode_failed, thumbFrame>>

PrecacheStart ==
    LET k == "precache"
    IN  /\ Begin(k)
        /\ \E r \in images :
             Set(k, [IdleOp EXCEPT !.pc = "snapshot", !.path = r.filepath])
        /\ UNCHANGED <<dbVars, disk, cacheVars, decode_failed, thumbFrame>>

\* index_snapshot = thumbnail_index.read().clone(); a path whose key is in
\* the snapshot is skipped.
PrecacheSnapshot ==
    LET k == "precache"
    IN  /\ ops[k].pc = "snapshot"
        /\ IF KeyOf(k) \in thumbnail_index THEN Finish(k, None)
           ELSE Goto(k, "classify")
        /\ UNCHANGED <<dbVars, disk, cacheVars, decode_failed, thumbFrame>>

PrecacheClassify ==
    LET k == "precache"
    IN  /\ ops[k].pc = "classify"
        /\ Goto(k, IF KeyOf(k) \in cache_files THEN "discovered" ELSE "generate")
        /\ UNCHANGED <<dbVars, disk, cacheVars, decode_failed, thumbFrame>>

\* generate_thumbnails(chunk): a source that is not among the generated
\* pairs is recorded as failed by the precache pass only.
Generate(k) ==
    /\ ops[k].pc = "generate"
    /\ \E prepare_ok \in BOOLEAN, outcome \in GenerationOutcomes :
         LET out    == generate_thumbnails(disk, cache_files, <<ops[k].path>>,
                                           prepare_ok, <<outcome>>)
             failed == out.generated = <<>>
         IN  /\ cache_files' = out.cache_files
             /\ Attempted(k, failed, out.decoded # {},
                          IF ~failed THEN "insert"
                          ELSE IF k = "precache" THEN "record_failure"
                          ELSE "return")
    /\ UNCHANGED <<dbVars, disk, thumbnail_index, failed_thumbnail_sources, last_op,
                   thumbFrame>>

\* delete_images -----------------------------------------------------------

\* get_images_by_ids; a locked or favorite image is not deleted.
DeleteStart ==
    LET k == "delete_images"
    IN  /\ Begin(k)
        /\ \E r \in images :
             /\ ~(r.is_locked \/ r.is_favorite)
             /\ Set(k, [IdleOp EXCEPT !.pc = "delete_file", !.id = r.id,
                                      !.path = r.filepath])
        /\ UNCHANGED <<dbVars, disk, cacheVars, decode_failed, thumbFrame>>

\* The source file is deleted if it exists; an image whose file cannot be
\* deleted is left alone.
DeleteFile ==
    LET k == "delete_images"
        p == ops[k].path
    IN  /\ ops[k].pc = "delete_file"
        /\ IF p \notin DOMAIN disk
           THEN /\ Goto(k, "unindex")
                /\ UNCHANGED <<disk, decode_failed>>
           ELSE \E file_ok \in BOOLEAN :
                  IF file_ok
                  THEN /\ disk' = RemoveFile(disk, p)
                       /\ decode_failed' = decode_failed \ {p}
                       /\ Forget(k, [ops[k] EXCEPT !.pc = "unindex"], p)
                  ELSE /\ Finish(k, None)
                       /\ UNCHANGED <<disk, decode_failed>>
        /\ UNCHANGED <<dbVars, cacheVars, thumbFrame>>

\* remove_thumbnail_cache_file: index.remove(key) ...
DeleteUnindex ==
    LET k == "delete_images"
    IN  /\ ops[k].pc = "unindex"
        /\ CanWrite(k, "thumbnail_index")
        /\ thumbnail_index' = thumbnail_index \ {KeyOf(k)}
        /\ Goto(k, "cache_remove")
        /\ UNCHANGED <<dbVars, disk, cache_files, failed_thumbnail_sources, decode_failed,
                       thumbFrame>>

\* ... then exists() and remove_file, which may fail.
DeleteCacheRemove ==
    LET k == "delete_images"
    IN  /\ ops[k].pc = "cache_remove"
        /\ \E remove_ok \in BOOLEAN :
             cache_files' = IF remove_ok THEN cache_files \ {KeyOf(k)} ELSE cache_files
        /\ Goto(k, "failed_clear")
        /\ UNCHANGED <<dbVars, disk, thumbnail_index, failed_thumbnail_sources,
                       decode_failed, thumbFrame>>

DeleteFailedClear ==
    LET k == "delete_images"
    IN  /\ ops[k].pc = "failed_clear"
        /\ CanWrite(k, "failed_thumbnail_sources")
        /\ failed_thumbnail_sources' = failed_thumbnail_sources \ {ops[k].path}
        /\ Goto(k, "db")
        /\ UNCHANGED <<dbVars, disk, cache_files, thumbnail_index, decode_failed,
                       thumbFrame>>

DeleteRows ==
    LET k == "delete_images"
    IN  /\ ops[k].pc = "db"
        /\ \E db_fail \in BOOLEAN :
             Commit(delete_images_by_ids(DB, {ops[k].id}, db_fail).db)
        /\ Finish(k, None)
        /\ UNCHANGED <<disk, cacheVars, decode_failed, thumbFrame>>

\* move_images_to_directory ------------------------------------------------

MoveStart ==
    LET k == "move_images"
    IN  /\ Begin(k)
        /\ \E r \in images, directory \in Dirs :
             Set(k, [IdleOp EXCEPT !.pc = "move_file", !.id = r.id, !.path = r.filepath,
                                   !.directory = directory])
        /\ UNCHANGED <<dbVars, disk, cacheVars, decode_failed, thumbFrame>>

\* The source is skipped when it is missing or already in the directory;
\* otherwise it is moved to the first free destination, which may fail.
MoveFile ==
    LET k    == "move_images"
        p    == ops[k].path
        dest == resolve_move_destination_path(DB, disk, p, ops[k].directory,
                                              ops[k].id, 0)
        skip == \/ p \notin DOMAIN disk
                \/ p.dir = ops[k].directory
                \/ dest = Err
    IN  /\ ops[k].pc = "move_file"
        /\ IF skip
           THEN /\ Finish(k, None)
                /\ UNCHANGED <<disk, decode_failed>>
           ELSE IF dest.ok = p
           THEN /\ Finish(k, None)
                /\ UNCHANGED <<disk, decode_failed>>
           ELSE \E move_ok \in BOOLEAN :
                  IF move_ok
                  THEN /\ disk' = move_file_with_fallback(disk, p, dest.ok)
                       /\ decode_failed' =
                            IF p \in decode_failed
                            THEN (decode_failed \ {p}) \cup {dest.ok}
                            ELSE decode_failed \ {dest.ok}
                       /\ Forget(k, [ops[k] EXCEPT !.pc = "move_unindex",
                                                   !.dest = dest.ok], p)
                  ELSE /\ Finish(k, None)
                       /\ UNCHANGED <<disk, decode_failed>>
        /\ UNCHANGED <<dbVars, cacheVars, thumbFrame>>

\* move_thumbnail_cache_file runs from the old path to the new one, and from
\* the new path back to the old one when the database update failed.
MoveFrom(k) == IF ops[k].back THEN ops[k].dest ELSE ops[k].path

MoveTo(k) == IF ops[k].back THEN ops[k].path ELSE ops[k].dest

AfterCacheMove(k) == IF ops[k].back THEN Finish(k, None) ELSE Goto(k, "move_db")

MoveUnindex ==
    LET k == "move_images"
    IN  /\ ops[k].pc = "move_unindex"
        /\ CanWrite(k, "thumbnail_index")
        /\ thumbnail_index' = thumbnail_index \ {get_thumbnail_cache_path(MoveFrom(k))}
        /\ Goto(k, "move_cache")
        /\ UNCHANGED <<dbVars, disk, cache_files, failed_thumbnail_sources, decode_failed,
                       thumbFrame>>

MoveCache ==
    LET k        == "move_images"
        from_key == get_thumbnail_cache_path(MoveFrom(k))
        to_key   == get_thumbnail_cache_path(MoveTo(k))
    IN  /\ ops[k].pc = "move_cache"
        /\ IF from_key \notin cache_files
           THEN /\ AfterCacheMove(k)
                /\ UNCHANGED cache_files
           ELSE \E move_ok \in BOOLEAN :
                  IF move_ok
                  THEN /\ cache_files' = (cache_files \ {from_key}) \cup {to_key}
                       /\ Goto(k, "move_index")
                  ELSE /\ AfterCacheMove(k)
                       /\ UNCHANGED cache_files
        /\ UNCHANGED <<dbVars, disk, thumbnail_index, failed_thumbnail_sources,
                       decode_failed, last_op, thumbFrame>>

MoveIndex ==
    LET k == "move_images"
    IN  /\ ops[k].pc = "move_index"
        /\ CanWrite(k, "thumbnail_index")
        /\ thumbnail_index' = thumbnail_index \cup {get_thumbnail_cache_path(MoveTo(k))}
        /\ AfterCacheMove(k)
        /\ UNCHANGED <<dbVars, disk, cache_files, failed_thumbnail_sources, decode_failed,
                       thumbFrame>>

\* update_image_location: Ok(true) keeps the move; an error, or Ok(false)
\* for a row that is gone, rolls it back.
MoveUpdateLocation ==
    LET k == "move_images"
    IN  /\ ops[k].pc = "move_db"
        /\ \E db_fail \in BOOLEAN :
             LET out == update_image_location(DB, ops[k].id, ops[k].dest, db_fail)
             IN  IF out.result = Ok(TRUE)
                 THEN /\ Commit(out.db)
                      /\ Goto(k, "move_failed")
                 ELSE /\ UNCHANGED dbVars
                      /\ Goto(k, "move_back")
        /\ UNCHANGED <<disk, cacheVars, decode_failed, thumbFrame>>

\* if failed.remove(old) { failed.insert(new) }
MoveFailedSource ==
    LET k == "move_images"
    IN  /\ ops[k].pc = "move_failed"
        /\ CanWrite(k, "failed_thumbnail_sources")
        /\ failed_thumbnail_sources' =
             IF ops[k].path \in failed_thumbnail_sources
             THEN (failed_thumbnail_sources \ {ops[k].path}) \cup {ops[k].dest}
             ELSE failed_thumbnail_sources
        /\ Finish(k, None)
        /\ UNCHANGED <<dbVars, disk, cache_files, thumbnail_index, decode_failed,
                       thumbFrame>>

\* let _ = move_file_with_fallback(&destination_path, &source_path)
MoveBack ==
    LET k == "move_images"
        p == ops[k].path
        d == ops[k].dest
    IN  /\ ops[k].pc = "move_back"
        /\ \E back_ok \in BOOLEAN :
             IF back_ok /\ d \in DOMAIN disk
             THEN /\ disk' = move_file_with_fallback(disk, d, p)
                  /\ decode_failed' =
                       IF d \in decode_failed THEN (decode_failed \ {d}) \cup {p}
                       ELSE decode_failed \ {p}
                  /\ Forget(k, [ops[k] EXCEPT !.pc = "move_unindex", !.back = TRUE], d)
             ELSE /\ Set(k, [ops[k] EXCEPT !.pc = "move_unindex", !.back = TRUE])
                  /\ UNCHANGED <<disk, decode_failed>>
        /\ UNCHANGED <<dbVars, cacheVars, thumbFrame>>

\* The environment ---------------------------------------------------------

\* The file at p is rewritten: what did not decode does, or the reverse.
SourceChanges(p) ==
    /\ p \in DOMAIN disk
    /\ disk' = [disk EXCEPT ![p] = IF @ = "good" THEN "bad" ELSE "good"]
    /\ decode_failed' = decode_failed \ {p}
    /\ ops' = [j \in Kinds |->
                 IF ops[j].path = p THEN [ops[j] EXCEPT !.known = FALSE] ELSE ops[j]]
    /\ UNCHANGED <<dbVars, cacheVars, thumbFrame>>

\* The caller has the result of the lookup.
LookupReturns(k) ==
    /\ ops[k].pc = "done"
    /\ Set(k, IdleOp)
    /\ UNCHANGED <<dbVars, disk, cacheVars, decode_failed, thumbFrame>>

NextThumbs ==
    \/ \E p \in ThumbSources : LookupStart(p)
    \/ LookupIndexRead
    \/ LookupExists
    \/ LookupFailedRead
    \/ LookupEnsure
    \/ \E k \in Kinds : IndexInsert(k)
    \/ \E k \in Kinds : FailedRemove(k)
    \/ \E k \in Kinds : FailedInsert(k)
    \/ \E k \in Kinds : DiscoveredInsert(k)
    \/ \E p \in ThumbSources : BatchStart(p)
    \/ BatchClassify
    \/ BatchExists
    \/ BatchResolve
    \/ \E k \in Generators, p \in ThumbSources : GenerateStart(k, p)
    \/ PrecacheStart
    \/ PrecacheSnapshot
    \/ PrecacheClassify
    \/ \E k \in Kinds : Generate(k)
    \/ DeleteStart
    \/ DeleteFile
    \/ DeleteUnindex
    \/ DeleteCacheRemove
    \/ DeleteFailedClear
    \/ DeleteRows
    \/ MoveStart
    \/ MoveFile
    \/ MoveUnindex
    \/ MoveCache
    \/ MoveIndex
    \/ MoveUpdateLocation
    \/ MoveFailedSource
    \/ MoveBack
    \/ \E p \in ThumbSources : SourceChanges(p)
    \/ \E k \in Lookups : LookupReturns(k)

SpecThumbs == InitThumbs /\ [][NextThumbs]_vars

\* C11: whenever no operation is in flight, no source path is in the
\* failed-source set while its cache key is in the cache-hit index.
C11_FailedSourceNotIndexed ==
    Quiescent =>
        \A p \in failed_thumbnail_sources :
            get_thumbnail_cache_path(p) \notin thumbnail_index

\* C12: whenever no operation is in flight, every source whose latest
\* generation attempt failed and that has not changed since is in the
\* failed-source set, and a lookup for it that has returned gave the source
\* path back without decoding.
C12_FailureRecordedAndNotRetried ==
    Quiescent =>
        /\ decode_failed \subseteq failed_thumbnail_sources
        /\ \A k \in Lookups :
             (ops[k].pc = "done" /\ ops[k].known) =>
                 (ops[k].result = ops[k].path /\ ~ops[k].decoded)

\* C13: whenever no operation is in flight, every key in the cache-hit index
\* names a thumbnail file that exists in the cache directory.
C13_IndexMirrorsCacheDirectory ==
    Quiescent => thumbnail_index \subseteq cache_files

\* C15: no operation holds the read or write lock of the cache-hit index or
\* of the failed-source set while it performs a filesystem call.
C15_NoLockAcrossFilesystemCall ==
    \A k \in Kinds : ops[k].pc \in FilesystemSteps => Holds(k) = {}

-----------------------------------------------------------------------------
(* Specification SpecScanThumbs: stage 5 of scan_directory.  The changed    *)
(* files are numbered 1..C in the order of files_to_process; the immediate  *)
(* batch is submitted in chunks whose size affects the progress events      *)
(* only, the warm-up thread submits the rest chunk by chunk.                *)

THUMB_IMMEDIATE_BUDGET_HDD == 2000
THUMB_IMMEDIATE_BUDGET_SSD == 8000
THUMB_PRECACHE_CHUNK_HDD == 192
THUMB_PRECACHE_CHUNK_SSD == 640

StorageProfile == {"Hdd", "Ssd"}

\* A budget that is the same for both profiles.
immediate_thumb_budgetOfSsd(profile) == THUMB_IMMEDIATE_BUDGET_SSD

immediate_thumb_budget(profile) ==
    IF profile = "Hdd" THEN THUMB_IMMEDIATE_BUDGET_HDD ELSE THUMB_IMMEDIATE_BUDGET_SSD

precache_chunk_size(profile) ==
    IF profile = "Hdd" THEN THUMB_PRECACHE_CHUNK_HDD ELSE THUMB_PRECACHE_CHUNK_SSD

\* s.iter().rev().collect()
Rev(s) == [i \in 1..Len(s) |-> s[Len(s) + 1 - i]]

\* usize::saturating_sub
saturating_sub(a, b) == IF a >= b THEN a - b ELSE 0

\* The split of files_to_process: the last immediate_thumb_count files,
\* newest path first, are the immediate batch; the files before them, again
\* reversed, are left to the warm-up thread.
thumbnail_split(files_to_process, profile) ==
    LET files_to_process_count == Len(files_to_process)
        immediate_thumb_count  == Min(files_to_process_count,
                                      immediate_thumb_budget(profile))
        split_at               == saturating_sub(files_to_process_count,
                                                 immediate_thumb_count)
        remaining_pending      == SubSeq(files_to_process, 1, split_at)
        immediate_pending      == SubSeq(files_to_process, split_at + 1,
                                         files_to_process_count)
    IN  [immediate_thumb_count |-> immediate_thumb_count,
         immediate_thumb_paths |-> Rev(immediate_pending),
         remaining_thumb_paths |-> Rev(remaining_pending)]

\* The numbers of changed files tried: a few, and around each budget.
SmallCount == 2
OverBudget == 2

ChangedCounts ==
    (0..SmallCount)
      \cup { immediate_thumb_budget(profile) + d :
               profile \in StorageProfile, d \in (0 - 1)..OverBudget }

InitScanThumbs ==
    /\ \E count \in ChangedCounts, profile \in StorageProfile :
         last_scan = [stage |-> "thumbnails", profile |-> profile,
                      files_to_process |-> [i \in 1..count |-> i],
                      split |-> thumbnail_split([i \in 1..count |-> i], profile),
                      immediate |-> <<>>, complete |-> FALSE, worker |-> "none",
                      background |-> <<>>]
    /\ images = {}
    /\ tags = {}
    /\ image_tags = {}
    /\ next_image_id = 1
    /\ next_tag_id = 1
    /\ disk = <<>>
    /\ NoTraversal
    /\ NoQuery
    /\ NoWrites
    /\ NoPrecache
    /\ NoCache
    /\ NoThumbs

scanThumbsFrame == <<dbVars, cursorVars, queryVars, writeVars, disk, precacheVars,
                     cacheVars, thumbVars>>

\* for chunk in immediate_thumb_paths.chunks(...) { generate_thumbnails(chunk) }
SubmitImmediateBatch ==
    /\ last_scan.stage = "thumbnails"
    /\ last_scan' = [last_scan EXCEPT !.stage = "emit",
                                      !.immediate = last_scan.split.immediate_thumb_paths]
    /\ UNCHANGED scanThumbsFrame

\* app_handle.emit("scan-complete", ...)
EmitScanComplete ==
    /\ last_scan.stage = "emit"
    /\ last_scan' = [last_scan EXCEPT !.stage = "spawn", !.complete = TRUE]
    /\ UNCHANGED scanThumbsFrame

\* No thread is started for an empty remainder; the result of spawn is
\* dropped, so a thread that cannot be started leaves the remainder alone.
SpawnWarmup ==
    /\ last_scan.stage = "spawn"
    /\ \E spawn_ok \in BOOLEAN :
         last_scan' =
           [last_scan EXCEPT
              !.stage = "returned",
              !.worker = IF last_scan.split.remaining_thumb_paths = <<>> THEN "none"
                         ELSE IF spawn_ok THEN "running"
                         ELSE "failed"]
    /\ UNCHANGED scanThumbsFrame

\* for chunk in remaining_thumb_paths.chunks(warmup_chunk_size) { ... }
WarmupChunk ==
    LET remaining == last_scan.split.remaining_thumb_paths
        done      == Len(last_scan.background)
        upto      == Min(Len(remaining), done + precache_chunk_size(last_scan.profile))
    IN  /\ last_scan.worker = "running"
        /\ last_scan' =
             IF done = Len(remaining) THEN [last_scan EXCEPT !.worker = "finished"]
             ELSE [last_scan EXCEPT !.background = SubSeq(remaining, 1, upto)]
        /\ UNCHANGED scanThumbsFrame

NextScanThumbs ==
    \/ SubmitImmediateBatch
    \/ EmitScanComplete
    \/ SpawnWarmup
    \/ WarmupChunk

SpecScanThumbs == InitScanThumbs /\ [][NextScanThumbs]_vars

\* C14: once scan-complete has been emitted exactly min(C, B) files have
\* been submitted synchronously; until it has been emitted no warm-up thread
\* runs and it has submitted nothing; the thread submits only files of the
\* remainder, all C - min(C, B) of them when it has finished; and the two
\* groups are disjoint and together are the changed files.
C14_ImmediateThenBackground ==
    LET count      == Len(last_scan.files_to_process)
        budget     == IF last_scan.profile = "Hdd" THEN 2000 ELSE 8000
        immediate  == SeqToSet(last_scan.immediate)
        background == SeqToSet(last_scan.background)
        remainder  == SeqToSet(last_scan.split.remaining_thumb_paths)
        first      == SeqToSet(last_scan.split.immediate_thumb_paths)
    IN  /\ last_scan.complete =>
             /\ Len(last_scan.immediate) = Min(count, budget)
             /\ Cardinality(immediate) = Min(count, budget)
        /\ ~last_scan.complete =>
             /\ last_scan.worker = "none"
             /\ last_scan.background = <<>>
        /\ background \subseteq remainder
        /\ last_scan.worker = "finished" =>
             /\ background = remainder
             /\ Len(last_scan.background) = count - Min(count, budget)
        /\ first \cap remainder = {}
        /\ first \cup remainder = SeqToSet(last_scan.files_to_process)
        /\ immediate \subseteq first

\* A scan with more changed files than the budget has emitted scan-complete
\* and its warm-up thread has submitted the remainder.
C14_Witness ==
    /\ last_scan.complete
    /\ last_scan.worker = "finished"
    /\ Len(last_scan.files_to_process) > 2000
    /\ last_scan.background # <<>>
    /\ Len(last_scan.immediate) = 2000

-----------------------------------------------------------------------------
(* Specification SpecBatch: the batch functions of the thumbnail engine and *)
(* the batch lookup that calls them, applied to any list of up to           *)
(* MaxBatchLen paths, over any content of the source directory and of the   *)
(* cache directory.                                                         *)

MaxBatchLen == 2
NumSources == 2

\* Source paths in the order of their strings.
BatchPathList ==
    << FilePath("a", <<"x">>), FilePath("a", <<"y">>), FilePath("b", <<"x">>),
       FilePath("b", <<"y">>) >>

BatchSources == { BatchPathList[i] : i \in 1..NumSources }

BatchPathIndex(p) == CHOOSE i \in DOMAIN BatchPathList : BatchPathList[i] = p

BatchInputs == UNION { [1..n -> BatchSources] : n \in 0..MaxBatchLen }

CacheNames ==
    { get_thumbnail_cache_path(p) : p \in BatchSources }
      \cup { legacy_thumbnail_path(p) : p \in BatchSources }

\* missing.sort_unstable(); missing.dedup();
SortedDedup(s) ==
    LET set == SeqToSet(s)
    IN  CHOOSE sorted \in [1..Cardinality(set) -> set] :
            \A i, j \in DOMAIN sorted :
                i < j => BatchPathIndex(sorted[i]) < BatchPathIndex(sorted[j])

\* get_thumbnail_paths: the paths whose key is in the index or on disk, or
\* that are known to have failed, are resolved at once; the others go to
\* resolve_thumbnail_paths, and the index and the failed set take its results.
get_thumbnail_paths(fs, filepaths, prepare_ok, outcomes) ==
    LET key(p)     == get_thumbnail_cache_path(p)
        in_index   == { p \in SeqToSet(filepaths) : key(p) \in fs.thumbnail_index }
        discovered == { p \in SeqToSet(filepaths) \ in_index : key(p) \in fs.cache_files }
        known      == (SeqToSet(filepaths) \ (in_index \cup discovered))
                        \cap fs.failed_thumbnail_sources
        missing    == SortedDedup(SelectSeq(filepaths,
                          LAMBDA p : p \notin in_index \cup discovered \cup known))
        out        == resolve_thumbnail_paths(fs.disk, fs.cache_files, missing,
                                              prepare_ok, outcomes)
        generated  == { i \in DOMAIN out.mappings : out.mappings[i][2] # out.mappings[i][1] }
        resolved(p) ==
            IF p \in in_index \cup discovered THEN key(p)
            ELSE IF p \in known THEN p
            ELSE out.mappings[CHOOSE i \in DOMAIN missing : missing[i] = p][2]
    IN  IF filepaths = <<>> THEN [fs |-> fs, result |-> Ok(<<>>), decoded |-> {}]
        ELSE [fs |-> [fs EXCEPT
                        !.cache_files = out.cache_files,
                        !.thumbnail_index =
                            (@ \cup { key(p) : p \in discovered })
                              \cup { out.mappings[i][2] : i \in generated },
                        !.failed_thumbnail_sources =
                            (@ \cup { out.mappings[i][1] : i \in DOMAIN missing \ generated })
                              \ { out.mappings[i][1] : i \in generated }],
              result |-> Ok([k \in DOMAIN filepaths |->
                               <<filepaths[k], resolved(filepaths[k])>>]),
              decoded |-> { missing[i] : i \in out.decoded }]

InitBatch ==
    /\ \E present \in SUBSET BatchSources :
         disk \in [present -> {"good", "bad"}]
    /\ cache_files \in SUBSET CacheNames
    /\ thumbnail_index \in SUBSET (cache_files \cap { get_thumbnail_cache_path(p) :
                                                      p \in BatchSources })
    /\ failed_thumbnail_sources = {}
    /\ last_op = None
    /\ images = {}
    /\ tags = {}
    /\ image_tags = {}
    /\ next_image_id = 1
    /\ next_tag_id = 1
    /\ last_scan = None
    /\ NoTraversal
    /\ NoQuery
    /\ NoWrites
    /\ NoPrecache
    /\ NoThumbs

batchFrame == <<dbVars, cursorVars, queryVars, writeVars, last_scan, precacheVars,
                thumbVars>>

\* What the call that has just returned was given, found and returned.
Called(op, filepaths, prepare_ok, outcomes, result, decoded) ==
    [op |-> op, filepaths |-> filepaths, prepare_ok |-> prepare_ok,
     outcomes |-> outcomes, files |-> disk, cache |-> cache_files,
     result |-> result, decoded |-> decoded]

GenerateThumbnails ==
    /\ last_op = None
    /\ \E sources \in BatchInputs, prepare_ok \in BOOLEAN :
         \E outcomes \in [DOMAIN sources -> GenerationOutcomes] :
           LET out == generate_thumbnails(disk, cache_files, sources, prepare_ok, outcomes)
           IN  /\ cache_files' = out.cache_files
               /\ last_op' = Called("generate_thumbnails", sources, prepare_ok, outcomes,
                                    out.generated, out.decoded)
    /\ UNCHANGED <<disk, thumbnail_index, failed_thumbnail_sources, batchFrame>>

ResolveThumbnailPaths ==
    /\ last_op = None
    /\ \E filepaths \in BatchInputs, prepare_ok \in BOOLEAN :
         \E outcomes \in [DOMAIN filepaths -> GenerationOutcomes] :
           LET out == resolve_thumbnail_paths(disk, cache_files, filepaths, prepare_ok,
                                              outcomes)
           IN  /\ cache_files' = out.cache_files
               /\ last_op' = Called("resolve_thumbnail_paths", filepaths, prepare_ok,
                                    outcomes, out.mappings, out.decoded)
    /\ UNCHANGED <<disk, thumbnail_index, failed_thumbnail_sources, batchFrame>>

GetThumbnailPaths ==
    /\ last_op = None
    /\ \E filepaths \in BatchInputs, prepare_ok \in BOOLEAN :
         \E outcomes \in [1..MaxBatchLen -> GenerationOutcomes] :
           LET out == get_thumbnail_paths(FS, filepaths, prepare_ok, outcomes)
           IN  /\ SetFS(out.fs)
               /\ last_op' = Called("get_thumbnail_paths", filepaths, prepare_ok,
                                    outcomes, out.result, out.decoded)
    /\ UNCHANGED batchFrame

\* The caller has the result.
BatchReturns ==
    /\ last_op # None
    /\ last_op' = None
    /\ UNCHANGED <<disk, cache_files, thumbnail_index, failed_thumbnail_sources,
                   batchFrame>>

NextBatch ==
    \/ GenerateThumbnails
    \/ ResolveThumbnailPaths
    \/ GetThumbnailPaths
    \/ BatchReturns

SpecBatch == InitBatch /\ [][NextBatch]_vars

\* The cache files of a source: the JPEG and the legacy file.
CacheNamesOf(source) == {get_thumbnail_cache_path(source), legacy_thumbnail_path(source)}

\* The source is missing or does not decode, or its JPEG could not be written.
GenerationFails(call, k) ==
    \/ call.filepaths[k] \notin DOMAIN call.files
    \/ call.files[call.filepaths[k]] = "bad"
    \/ call.outcomes[k] \in {"create_failed", "encode_failed"}

\* C17: resolve_thumbnail_paths returns one mapping per input, in the order
\* of the inputs; the resolved path is a cache file of the source that
\* existed before the call or exists after it, the JPEG whenever that existed
\* or could be generated, or else it is the source path, which it is only
\* when the cache directory is unavailable or generation failed; the batch
\* lookup built on it returns Ok with one such mapping per input.
C17_OneMappingPerInput ==
    /\ (last_op # None /\ last_op.op = "resolve_thumbnail_paths") =>
         /\ Len(last_op.result) = Len(last_op.filepaths)
         /\ \A k \in DOMAIN last_op.filepaths :
              LET source   == last_op.filepaths[k]
                  resolved == last_op.result[k][2]
              IN  /\ last_op.result[k][1] = source
                  /\ \/ resolved \in CacheNamesOf(source) \cap (last_op.cache \cup cache_files)
                     \/ resolved = source
                  /\ ~last_op.prepare_ok => resolved = source
                  /\ (last_op.prepare_ok
                        /\ get_thumbnail_cache_path(source) \in last_op.cache)
                       => resolved = get_thumbnail_cache_path(source)
                  /\ (last_op.prepare_ok /\ ~GenerationFails(last_op, k))
                       => resolved = get_thumbnail_cache_path(source)
                  /\ (last_op.prepare_ok /\ resolved = source)
                       => GenerationFails(last_op, k)
    /\ (last_op # None /\ last_op.op = "get_thumbnail_paths") =>
         /\ last_op.result # Err
         /\ Len(last_op.result.ok) = Len(last_op.filepaths)
         /\ \A k \in DOMAIN last_op.filepaths :
              LET source   == last_op.filepaths[k]
                  resolved == last_op.result.ok[k][2]
              IN  /\ last_op.result.ok[k][1] = source
                  /\ \/ resolved \in CacheNamesOf(source) \cap (last_op.cache \cup cache_files)
                     \/ resolved = source

\* resolve_thumbnail_paths has returned for two sources: the thumbnail of
\* the first was generated by the call, generation failed for the second.
C17_Witness ==
    /\ last_op # None
    /\ last_op.op = "resolve_thumbnail_paths"
    /\ Len(last_op.filepaths) = 2
    /\ last_op.filepaths[1] # last_op.filepaths[2]
    /\ 1 \in last_op.decoded
    /\ last_op.result[1][2] = get_thumbnail_cache_path(last_op.filepaths[1])
    /\ last_op.result[2][2] = last_op.filepaths[2]

\* Input k of the call gets a cached path: its JPEG existed before the call,
\* or its source could be decoded and the JPEG written, or the source is gone
\* or its JPEG could not be written and a legacy cache file stands in.
GetsCachedPath(call, k) ==
    LET source == call.filepaths[k]
        legacy == legacy_thumbnail_path(source) \in call.cache
    IN  \/ get_thumbnail_cache_path(source) \in call.cache
        \/ source \notin DOMAIN call.files /\ legacy
        \/ /\ source \in DOMAIN call.files
           /\ call.files[source] = "good"
           /\ (legacy \/ call.outcomes[k] \notin {"create_failed", "encode_failed"})

\* C18: generate_thumbnails reports a path whose cache file existed before
\* the call with that cache file, without decoding it and leaving the file
\* in place; of a list of distinct paths it reports, in the order of the
\* list, exactly the paths that get a cached path, whatever happened to the
\* other inputs, and omits the paths whose generation failed.
C18_InputsIndependent ==
    (last_op # None /\ last_op.op = "generate_thumbnails" /\ last_op.prepare_ok) =>
        LET n         == Len(last_op.filepaths)
            generated == last_op.result
            distinct  == \A i, j \in 1..n : i # j => last_op.filepaths[i] # last_op.filepaths[j]
            reported  == { k \in 1..n : GetsCachedPath(last_op, k) }
        IN  /\ \A k \in 1..n :
                 LET source == last_op.filepaths[k]
                 IN  get_thumbnail_cache_path(source) \in last_op.cache =>
                       /\ k \notin last_op.decoded
                       /\ get_thumbnail_cache_path(source) \in cache_files
                       /\ \E i \in DOMAIN generated :
                            generated[i] = <<source, get_thumbnail_cache_path(source)>>
            /\ \A i \in DOMAIN generated :
                 /\ \E k \in 1..n : generated[i][1] = last_op.filepaths[k]
                 /\ generated[i][2] \in CacheNamesOf(generated[i][1])
            /\ distinct =>
                 /\ Len(generated) = Cardinality(reported)
                 /\ \A k \in 1..n :
                      (k \in reported) <=>
                          \E i \in DOMAIN generated : generated[i][1] = last_op.filepaths[k]
                 /\ \A i, j \in DOMAIN generated :
                      i < j => BatchPathIndex(generated[i][1]) # BatchPathIndex(generated[j][1])
                 /\ \A i, j \in DOMAIN generated, k, l \in 1..n :
                      (i < j /\ generated[i][1] = last_op.filepaths[k]
                             /\ generated[j][1] = last_op.filepaths[l]) => k < l

\* generate_thumbnails has returned for two sources: generation failed for
\* the first, which is not in the result; the second was cached before the
\* call, was not decoded and is in the result.
C18_Witness ==
    /\ last_op # None
    /\ last_op.op = "generate_thumbnails"
    /\ last_op.prepare_ok
    /\ Len(last_op.filepaths) = 2
    /\ last_op.filepaths[1] # last_op.filepaths[2]
    /\ 1 \in last_op.decoded
    /\ get_thumbnail_cache_path(last_op.filepaths[2]) \in last_op.cache
    /\ last_op.result = << <<last_op.filepaths[2],
                             get_thumbnail_cache_path(last_op.filepaths[2])>> >>

-----------------------------------------------------------------------------
(* The thumbnail cache key: hash_path and the functions that name cache      *)
(* files by it (image_processing.rs), over process runs (lib.rs).            *)

MaxRuns == 2

\* get_thumbnail_candidate_paths: the .jpg and the .webp cache path.
get_thumbnail_candidate_paths(source) ==
    <<[hash |-> hash_path(source), ext |-> "jpg"],
      [hash |-> hash_path(source), ext |-> "webp"]>>

\* image_processing::get_thumbnail_path: the .jpg cache path, whether the
\* file exists or not.
image_processing_get_thumbnail_path(cache, source) ==
    LET jpg_path == get_thumbnail_candidate_paths(source)[1]
    IN  IF jpg_path \in cache THEN jpg_path ELSE jpg_path

\* build_thumbnail_index: the .jpg entries of the cache directory, or nothing
\* when the directory cannot be read.
build_thumbnail_index(cache, read_ok) ==
    IF read_ok THEN { f \in cache : f.ext = "jpg" } ELSE {}

\* The library on disk: every tabulated path, or all but the first.
InitKey ==
    /\ \E present \in {KeyPaths, KeyPaths \ {KeyPathList[1]}} :
         disk = [p \in present |-> "good"]
    /\ cache_files = {}
    /\ thumbnail_index = {}
    /\ failed_thumbnail_sources = {}
    /\ last_op = [run |-> 1, calls |-> {}]
    /\ images = {}
    /\ tags = {}
    /\ image_tags = {}
    /\ next_image_id = 1
    /\ next_tag_id = 1
    /\ last_scan = None
    /\ NoTraversal
    /\ NoQuery
    /\ NoWrites
    /\ NoPrecache
    /\ NoThumbs

keyFrame == <<dbVars, cursorVars, queryVars, writeVars, last_scan, precacheVars,
              thumbVars>>

\* The calls so far and the keys in the file names they returned.
Keyed(source, keys) ==
    last_op' = [last_op EXCEPT
                  !.calls = @ \cup { [path |-> source, key |-> k, run |-> last_op.run] :
                                     k \in keys }]

KeyGetThumbnailPath ==
    /\ \E source \in KeyPaths :
         Keyed(source, {image_processing_get_thumbnail_path(cache_files, source).hash})
    /\ UNCHANGED <<disk, cache_files, thumbnail_index, failed_thumbnail_sources, keyFrame>>

KeyGetThumbnailCandidatePaths ==
    /\ \E source \in KeyPaths :
         LET candidates == get_thumbnail_candidate_paths(source)
         IN  Keyed(source, {candidates[1].hash, candidates[2].hash})
    /\ UNCHANGED <<disk, cache_files, thumbnail_index, failed_thumbnail_sources, keyFrame>>

KeyEnsureThumbnail ==
    /\ \E source \in KeyPaths, outcome \in {"written", "create_failed"} :
         LET out == ensure_thumbnail(disk, cache_files, source, TRUE, outcome)
         IN  /\ cache_files' = out.cache_files
             /\ Keyed(source, IF out.result = Err THEN {} ELSE {out.result.ok.hash})
    /\ UNCHANGED <<disk, thumbnail_index, failed_thumbnail_sources, keyFrame>>

\* The process ends and starts again: the in-memory sets are built anew.
KeyRestart ==
    /\ last_op.run < MaxRuns
    /\ \E read_ok \in BOOLEAN :
         thumbnail_index' = build_thumbnail_index(cache_files, read_ok)
    /\ failed_thumbnail_sources' = {}
    /\ last_op' = [last_op EXCEPT !.run = @ + 1]
    /\ UNCHANGED <<disk, cache_files, keyFrame>>

NextKey ==
    \/ KeyGetThumbnailPath
    \/ KeyGetThumbnailCandidatePaths
    \/ KeyEnsureThumbnail
    \/ KeyRestart

SpecKey == InitKey /\ [][NextKey]_vars

canonicalize(path) ==
    [path EXCEPT !.dir = IF @ = "/lib/./a" THEN "/lib/a" ELSE @]

\* C20: the key is the digest of a version tag followed by the canonicalized
\* path: two spellings of one absolute path get the same key, and the key is
\* not the digest of the path alone.
C20_KeyOfTagAndCanonicalPath ==
    \A c, d \in last_op.calls :
        /\ canonicalize(c.path) = canonicalize(d.path) => c.key = d.key
        /\ c.key # hex_encode(SubSeq(Sha256[to_string_lossy(canonicalize(c.path))], 1, 16))

-----------------------------------------------------------------------------
(* Specification SpecPass: full-library precache passes, one at a time, on  *)
(* a library of up to NumPassImages images.  The cache directory may be     *)
(* missing, the user may remove it, and every step of a pass may fail.      *)

NumPassImages == 2

PassPathList == << FilePath("a", <<"x">>), FilePath("a", <<"y">>) >>

\* std::fs::create_dir_all: the directory is made when it is missing.
prepare_cache_dir(dir, ok) ==
    [cache_dir |-> dir \/ ok, result |-> IF ok THEN Ok(TRUE) ELSE Err]

\* SELECT filepath FROM images ORDER BY id DESC, as the Vec it returns.
RECURSIVE FilepathsDesc(_)
FilepathsDesc(rows) ==
    IF rows = {} THEN <<>>
    ELSE LET newest == CHOOSE r \in rows : \A q \in rows : q.id <= r.id
         IN  <<newest.filepath>> \o FilepathsDesc(rows \ {newest})

ThumbnailPrecacheProgress(current, total, generated, skipped, failed, phase) ==
    [event |-> "thumbnail-cache-progress", current |-> current, total |-> total,
     generated |-> generated, skipped |-> skipped, failed |-> failed, phase |-> phase]

ThumbnailPrecacheComplete(total, generated, skipped, failed) ==
    [event |-> "thumbnail-cache-complete", total |-> total, generated |-> generated,
     skipped |-> skipped, failed |-> failed]

\* The classification loop over all_filepaths: acc = [skipped, discovered,
\* pending, events].
RECURSIVE precache_classify(_, _, _, _, _)
precache_classify(all_filepaths, idx, index_snapshot, files, acc) ==
    IF idx > Len(all_filepaths) THEN acc
    ELSE LET primary_key == get_thumbnail_cache_path(all_filepaths[idx])
             total   == Len(all_filepaths)
             counted == IF primary_key \in index_snapshot
                        THEN [acc EXCEPT !.skipped = @ + 1]
                        ELSE IF primary_key \in files
                        THEN [acc EXCEPT !.skipped = @ + 1,
                                         !.discovered = Append(@, primary_key)]
                        ELSE [acc EXCEPT !.pending = Append(@, all_filepaths[idx])]
             emitted == IF idx % 1024 = 0 \/ idx = total
                        THEN [counted EXCEPT !.events =
                                Append(@, ThumbnailPrecacheProgress(idx, total, 0,
                                              counted.skipped, 0, "preparing"))]
                        ELSE counted
         IN  precache_classify(all_filepaths, idx + 1, index_snapshot, files, emitted)

\* for chunk in pending_paths.chunks(chunk_size): generate, count, update the
\* index and the failed set, emit progress.  acc = [generated, processed,
\* failed, events].
RECURSIVE precache_chunks(_, _, _, _, _)
precache_chunks(fs, pending_paths, from, o, acc) ==
    IF from > Len(pending_paths) THEN [fs |-> fs, acc |-> acc]
    ELSE LET to      == Min(from + o.chunk_size - 1, Len(pending_paths))
             chunk   == SubSeq(pending_paths, from, to)
             out     == generate_thumbnails(fs.disk, fs.cache_files, chunk,
                                            o.chunk_prepare_ok,
                                            SubSeq(o.outcomes, from, to))
             sources == { out.generated[i][1] : i \in DOMAIN out.generated }
             thumbs  == { out.generated[i][2] : i \in DOMAIN out.generated }
             after   == [fs EXCEPT
                           !.cache_files = out.cache_files,
                           !.thumbnail_index = @ \cup thumbs,
                           !.failed_thumbnail_sources =
                               (@ \ sources) \cup (SeqToSet(chunk) \ sources)]
             generated == acc.generated + Len(out.generated)
             processed == acc.processed + Len(chunk)
             failed    == acc.failed + saturating_sub(Len(chunk), Len(out.generated))
         IN  precache_chunks(after, pending_paths, to + 1, o,
                 [generated |-> generated, processed |-> processed, failed |-> failed,
                  events |-> Append(acc.events,
                       ThumbnailPrecacheProgress(processed, o.total, generated,
                                                 o.skipped, failed, "generating"))])

\* The worker has returned by the exit path `how`.
WorkerEnded(fs, dir, events, how) ==
    [fs |-> fs, cache_dir |-> dir, events |-> events, exit |-> how]

\* A completion event that reports the generated thumbnails as the pass's
\* whole work.
precache_completeDropsFailed(done, dir, total, skipped) ==
    WorkerEnded(done.fs, dir,
                Append(done.acc.events,
                       ThumbnailPrecacheComplete(total, done.acc.generated, skipped, 0)),
                "completed")

\* The completion event after the last chunk.
precache_complete(done, dir, total, skipped) ==
    WorkerEnded(done.fs, dir,
                Append(done.acc.events,
                       ThumbnailPrecacheComplete(total, done.acc.generated, skipped,
                                                 done.acc.failed)),
                "completed")

\* After the classification loop: the discovered keys go into the index and
\* the pending sources are generated chunk by chunk.
precache_generate(fs, dir, sorted, total, o) ==
    precache_complete(
        precache_chunks([fs EXCEPT !.thumbnail_index = @ \cup SeqToSet(sorted.discovered)],
                        sorted.pending, 1,
                        [chunk_size |-> precache_chunk_size(o.profile),
                         chunk_prepare_ok |-> o.chunk_prepare_ok,
                         outcomes |-> o.outcomes, total |-> total,
                         skipped |-> sorted.skipped],
                        [generated |-> 0, processed |-> sorted.skipped, failed |-> 0,
                         events |-> sorted.events]),
        dir, total, sorted.skipped)

\* The pass once all_filepaths is read: the first progress event, the return
\* when the library is empty, the classification loop.
precache_library(fs, dir, all_filepaths, o) ==
    LET total     == Len(all_filepaths)
        preparing == ThumbnailPrecacheProgress(0, total, 0, 0, 0, "preparing")
    IN  IF total = 0
        THEN WorkerEnded(fs, dir,
                         <<preparing, ThumbnailPrecacheComplete(total, 0, 0, 0)>>,
                         "empty_library")
        ELSE precache_generate(fs, dir,
                 precache_classify(all_filepaths, 1, fs.thumbnail_index, fs.cache_files,
                                   [skipped |-> 0, discovered |-> <<>>, pending |-> <<>>,
                                    events |-> <<preparing>>]),
                 total, o)

\* The closure of the thumbnail-precache thread, from prepare_cache_dir to
\* its return: the files and sets it leaves, and the events it emitted.
precache_worker(fs, dir, db, o) ==
    LET prepared == prepare_cache_dir(dir, o.prepare_ok)
        nothing  == ThumbnailPrecacheComplete(0, 0, 0, 0)
    IN  IF prepared.result = Err
        THEN WorkerEnded(fs, prepared.cache_dir, <<nothing>>, "cache_dir_error")
        ELSE IF o.read_fail
        THEN WorkerEnded(fs, prepared.cache_dir, <<nothing>>, "database_error")
        ELSE precache_library(fs, prepared.cache_dir, FilepathsDesc(db.images), o)

\* The library holds any of the images, whose sources decode or not; the
\* setup made the cache directory or failed to.
InitPass ==
    /\ \E ids \in SUBSET (1..NumPassImages) :
         /\ images = { MakeRow(i, PassPathList[i], 1, NULL, Txt2ImgCode, FALSE, <<>>, 100) :
                       i \in ids }
         /\ disk \in [{ PassPathList[i] : i \in ids } -> {"good", "bad"}]
    /\ tags = {}
    /\ image_tags = {}
    /\ next_image_id = NumPassImages + 1
    /\ next_tag_id = 1
    /\ last_scan = None
    /\ cache_dir \in BOOLEAN
    /\ cache_files = {}
    /\ thumbnail_index = {}
    /\ failed_thumbnail_sources = {}
    /\ last_op = None
    /\ ops = <<>>
    /\ decode_failed = {}
    /\ NoStore
    /\ NoTraversal
    /\ NoQuery
    /\ NoWrites
    /\ NoPrecache

passFrame == <<dbVars, cursorVars, queryVars, writeVars, last_scan, callers, workers,
               exits, ops, decode_failed, storeVars>>

\* precache_all_thumbnails and the worker it spawns, to the worker's return.
PrecachePass ==
    /\ last_op = None
    /\ compare_exchange(thumbnail_precache_running, FALSE, TRUE).ok
    /\ \E prepare_ok, read_fail, chunk_prepare_ok \in BOOLEAN, profile \in StorageProfile :
         \E outcomes \in [1..NumPassImages -> GenerationOutcomes] :
           LET out == precache_worker(FS, cache_dir, DB,
                          [prepare_ok |-> prepare_ok, read_fail |-> read_fail,
                           chunk_prepare_ok |-> chunk_prepare_ok, profile |-> profile,
                           outcomes |-> outcomes])
           IN  /\ SetFS(out.fs)
               /\ cache_dir' = out.cache_dir
               /\ last_op' = [op |-> "precache_all_thumbnails", read_fail |-> read_fail,
                              library |-> Cardinality(images), cache_dir |-> cache_dir,
                              cache |-> cache_files, events |-> out.events,
                              exit |-> out.exit]
    /\ thumbnail_precache_running' = RunningGuard_drop(TRUE)
    /\ UNCHANGED passFrame

\* The frontend has the events of the pass.
PassReturns ==
    /\ last_op # None
    /\ last_op' = None
    /\ UNCHANGED <<disk, cache_files, thumbnail_index, failed_thumbnail_sources,
                   cache_dir, thumbnail_precache_running, passFrame>>

\* The user removes the cache directory and what is in it.
CacheDirectoryRemoved ==
    /\ last_op = None
    /\ cache_dir
    /\ cache_dir' = FALSE
    /\ cache_files' = {}
    /\ UNCHANGED <<disk, thumbnail_index, failed_thumbnail_sources, last_op,
                   thumbnail_precache_running, passFrame>>

NextPass ==
    \/ PrecachePass
    \/ PassReturns
    \/ CacheDirectoryRemoved

SpecPass == InitPass /\ [][NextPass]_vars

\* C21: a precache pass on a library with no images ends with a completion
\* event of total 0 and generated 0, and leaves the cache directory and the
\* files in it as they were: nothing is created.
C21_EmptyLibraryWritesNothing ==
    (last_op # None /\ last_op.library = 0) =>
        /\ last_op.events[Len(last_op.events)].event = "thumbnail-cache-complete"
        /\ last_op.events[Len(last_op.events)].total = 0
        /\ last_op.events[Len(last_op.events)].generated = 0
        /\ cache_files = last_op.cache
        /\ cache_dir = last_op.cache_dir

-----------------------------------------------------------------------------
(* The full-text shadow indexes (database.rs, init_schema).  images_fts and  *)
(* images_fts_tri are external-content FTS5 tables over images; six         *)
(* triggers on images keep them up to date inside the writing statement.    *)
(* The model's rows carry two of the four indexed columns (prompt and       *)
(* model_name); the trigger statements copy negative_prompt and             *)
(* raw_metadata in the same VALUES lists.                                   *)

\* The index entry of a row: rowid and the indexed column values.
FtsEntry(row) ==
    [rowid |-> row.id, prompt |-> row.prompt, model_name |-> row.model_name]

\* CREATE TRIGGER images_ai / images_ai_tri AFTER INSERT ON images
images_ai(fts, new) == fts \cup {FtsEntry(new)}

\* CREATE TRIGGER images_ad / images_ad_tri AFTER DELETE ON images: the
\* 'delete' command removes the entry of old.id with the old column values.
images_ad(fts, old) == fts \ {FtsEntry(old)}

\* An update trigger that only inserts the new values.
images_auKeepsOld(fts, old, new) == images_ai(fts, new)

\* CREATE TRIGGER images_au / images_au_tri AFTER UPDATE ON images
images_au(fts, old, new) == images_ai(images_ad(fts, old), new)

\* The triggers fired by the statements that took the images table from
\* `before` to `after`, for the row ids in `ids`.
RECURSIVE fire_triggers(_, _, _, _)
fire_triggers(fts, ids, before, after) ==
    IF ids = {} THEN fts
    ELSE LET id  == CHOOSE i \in ids : \A j \in ids : i <= j
             old == { r \in before : r.id = id }
             new == { r \in after : r.id = id }
             o   == CHOOSE r \in old : TRUE
             n   == CHOOSE r \in new : TRUE
             fired == IF old = {} THEN images_ai(fts, n)
                      ELSE IF new = {} THEN images_ad(fts, o)
                      ELSE IF o # n THEN images_au(fts, o, n)
                      ELSE fts
         IN  fire_triggers(fired, ids \ {id}, before, after)

\* The index after a transaction that took images from `before` to `after`.
shadow_index(fts, before, after) ==
    fire_triggers(fts, { r.id : r \in before \cup after }, before, after)

-----------------------------------------------------------------------------
(* Specification SpecStore: any sequence of bulk upserts, location updates  *)
(* and deletes on a library that starts empty; any call may fail.           *)

MaxStoreId == 3

\* The parsed metadata and tags of a file: none; a prompt, a model and a
\* padded upper-case tag; another prompt and a tag with a non-ASCII capital.
StoreVersions ==
    { [params |-> [prompt |-> <<>>, model_name |-> NULL], tags |-> <<>>],
      [params |-> [prompt |-> <<"a">>, model_name |-> 1], tags |-> << <<" ", "A">> >>],
      [params |-> [prompt |-> <<"b">>, model_name |-> 1], tags |-> << <<"É">> >>] }

\* Tags as replace_image_tags receives them from the caller.
StoreTagLists == { <<>>, << <<"a">>, <<"é", " ">>, <<" ">> >> }

StoreRecords ==
    { [filepath |-> p, filename |-> 1, file_mtime |-> 100, params |-> v.params,
       tags |-> v.tags] : p \in UpsertPaths, v \in StoreVersions }

StoreBatches == UNION { [1..n -> StoreRecords] : n \in 0..MaxBatch }

InitStore ==
    /\ images = {}
    /\ tags = {}
    /\ image_tags = {}
    /\ next_image_id = 1
    /\ next_tag_id = 1
    /\ NoTraversal
    /\ NoQuery
    /\ NoWrites
    /\ NoScan
    /\ NoPrecache
    /\ NoCache
    /\ NoThumbs

storeFrame == <<cursorVars, queryVars, supplied, latest_tags, scanVars, precacheVars,
                cacheVars, ops, decode_failed, cache_dir, schema, poolVars, partial_files>>

\* The transaction commits (or rolls back to) the tables of `out`; the
\* triggers ran inside it.
StoreCommit(out, call) ==
    /\ Commit(out.db)
    /\ images_fts' = shadow_index(images_fts, images, out.db.images)
    /\ images_fts_tri' = shadow_index(images_fts_tri, images, out.db.images)
    /\ last_call' = [op |-> call.op, ids |-> call.ids, result |-> out.result,
                     before |-> [images |-> images, image_tags |-> image_tags]]

StoreBulkUpsert ==
    /\ last_call = None
    /\ \E records \in StoreBatches :
         /\ next_image_id + Len(records) <= MaxStoreId + 1
         /\ next_tag_id < MaxStoreId
         /\ \E fail \in Failures(records) :
              StoreCommit(bulk_upsert_with_tags(DB, records, fail),
                          [op |-> "bulk_upsert_with_tags", ids |-> {}])
    /\ UNCHANGED storeFrame

\* update_image_location; a filepath another row holds violates UNIQUE.
StoreUpdateLocation ==
    /\ last_call = None
    /\ \E image_id \in 1..MaxStoreId, filepath \in {PathList[3]} :
         \E fail \in BOOLEAN :
           LET taken == \E r \in images : r.filepath = filepath /\ r.id # image_id
           IN  StoreCommit(update_image_location(DB, image_id, filepath, fail \/ taken),
                           [op |-> "update_image_location", ids |-> {image_id}])
    /\ UNCHANGED storeFrame

StoreDeleteImages ==
    /\ last_call = None
    /\ \E ids \in SUBSET (1..MaxStoreId) :
         \E fail \in BOOLEAN :
           StoreCommit(delete_images_by_ids(DB, ids, fail),
                       [op |-> "delete_images_by_ids", ids |-> ids])
    /\ UNCHANGED storeFrame

StoreReplaceTags ==
    /\ last_call = None
    /\ next_tag_id < MaxStoreId
    /\ \E row \in images, tag_list \in StoreTagLists :
         \E fail \in {NoFailure, [kind |-> "statement", index |-> 1]} :
           StoreCommit(replace_image_tags(DB, row.id, tag_list, fail),
                       [op |-> "replace_image_tags", ids |-> {row.id}])
    /\ UNCHANGED storeFrame

StoreReturns ==
    /\ last_call # None
    /\ last_call' = None
    /\ UNCHANGED <<dbVars, images_fts, images_fts_tri, storeFrame>>

NextStore ==
    \/ StoreBulkUpsert
    \/ StoreUpdateLocation
    \/ StoreDeleteImages
    \/ StoreReplaceTags
    \/ StoreReturns

SpecStore == InitStore /\ [][NextStore]_vars

\* C22: in every committed state reached by bulk upserts, location updates
\* and deletes, the ranked index and the trigram index each hold exactly one
\* entry per row of images, with the row's current indexed column values.
C22_ShadowIndexesMatchImages ==
    /\ images_fts = { FtsEntry(r) : r \in images }
    /\ images_fts_tri = { FtsEntry(r) : r \in images }

\* An upsert has just changed the prompt of an existing row next to another
\* row, and the index holds the new entry.
C22_Witness ==
    /\ last_call # None
    /\ last_call.op = "bulk_upsert_with_tags"
    /\ Cardinality(images) = 2
    /\ \E old \in last_call.before.images, new \in images :
         /\ old.id = new.id
         /\ old.prompt # new.prompt
         /\ old.prompt # <<>>
         /\ FtsEntry(new) \in images_fts_tri

\* C23: when delete_images_by_ids has committed, no row of images and no row
\* of image_tags refers to a deleted id; when it has failed, images and
\* image_tags are both as they were before the call.
C23_DeleteCascadesToTags ==
    (last_call # None /\ last_call.op = "delete_images_by_ids") =>
        IF last_call.result # Err
        THEN /\ \A r \in images : r.id \notin last_call.ids
             /\ \A it \in image_tags : it.image_id \notin last_call.ids
        ELSE /\ images = last_call.before.images
             /\ image_tags = last_call.before.image_tags

\* A delete has just removed a tagged image and left another image.
C23_Witness ==
    /\ last_call # None
    /\ last_call.op = "delete_images_by_ids"
    /\ last_call.result # Err
    /\ images # {}
    /\ \E it \in last_call.before.image_tags : it.image_id \in last_call.ids

\* C24: after any sequence of bulk upserts, tag replacements, moves and
\* deletes, every stored tag is non-empty and equal to its own trimmed,
\* lower-cased value, and no two rows of tags hold texts that are equal after
\* trimming and lower-casing.
C24_TagsNormalizedAndDeduplicated ==
    /\ \A t \in tags : t.tag # <<>> /\ t.tag = to_lowercase(trim(t.tag))
    /\ \A t, u \in tags :
         to_lowercase(trim(t.tag)) = to_lowercase(trim(u.tag)) => t.id = u.id

-----------------------------------------------------------------------------
(* The parse stage of the scan.  The repository holds two scan_directory    *)
(* handlers: commands.rs (the module lib.rs declares and registers) and     *)
(* commands/scan.rs.  They differ in what they do with a file whose         *)
(* metadata text is empty.                                                  *)

\* extract_parameters_metadata results without a recognised shape: no
\* metadata, blank text, and plain text with none of the markers
\* "Negative prompt:" and "Steps:" and no JSON object.
MetaTexts == { <<>>, <<" ">>, <<" ", "a", "B", "a">> }

\* parser::parse_generation_metadata on such a text: parse_json_metadata is
\* None, and parse_a1111_metadata keeps the default fields for blank text
\* and takes the trimmed text as the prompt otherwise.
parse_generation_metadata(raw) ==
    [prompt |-> trim(raw), model_name |-> NULL, raw_metadata |-> raw]

\* GenerationParams { raw_metadata: String::new(), ..Default::default() }
DefaultParams == [prompt |-> <<>>, model_name |-> NULL, raw_metadata |-> <<>>]

\* parser::extract_tags on a prompt without comma: the lower-cased
\* alphanumeric words of at least three characters.
extract_tags(prompt) ==
    LET words == { to_ascii_lowercase(w) : w \in SeqToSet(Runs(prompt, "token", <<>>)) }
        kept  == { w \in words : Len(w) >= 3 }
    IN  CHOOSE q \in [1..Cardinality(kept) -> kept] :
            \A i, j \in DOMAIN q : i # j => q[i] # q[j]

\* The record of a file with parsed metadata `params`.
\* pending.sidecar is sidecar::read_sidecar(&pending.path): None, or the tags.
MetaRecord(pending, params) ==
    [filepath |-> pending.path, filename |-> 1, file_mtime |-> pending.file_mtime,
     params |-> params,
     tags |-> extract_tags(params.prompt)
                \o (IF pending.sidecar = None THEN <<>> ELSE pending.sidecar.some)]

\* The filter_map closure of commands/scan.rs.
parse_pending_scan(pending) ==
    Some(MetaRecord(pending, IF trim(pending.raw) = <<>> THEN DefaultParams
                             ELSE parse_generation_metadata(pending.raw)))

\* The filter_map closure of commands.rs: a file with blank metadata adds
\* one to error_counter and yields no record.
parse_pending_commands(pending) ==
    IF trim(pending.raw) = <<>> THEN None
    ELSE Some(MetaRecord(pending, parse_generation_metadata(pending.raw)))

parse_pending(handler, pending) ==
    IF handler = "commands.rs" THEN parse_pending_commands(pending)
    ELSE parse_pending_scan(pending)

IsSome(x) == x # None

\* file_chunk.par_iter().filter_map(...).collect()
ParsedRecords(handler, file_chunk) ==
    LET out == SelectSeq([k \in DOMAIN file_chunk |-> parse_pending(handler, file_chunk[k])],
                         IsSome)
    IN  [k \in DOMAIN out |-> out[k].some]

\* The write chunks of a whole scan by `handler`, in the order written.
MetaWriteChunks(handler, files_to_process) ==
    LET parsed == Chunks(files_to_process, MetadataParseChunk)
    IN  Flatten([k \in DOMAIN parsed |->
                   Chunks(ParsedRecords(handler, parsed[k]), BulkChunk)])

\* error_counter at the end of the parse stage.
error_counter(handler, files_to_process) ==
    Cardinality({ k \in DOMAIN files_to_process :
                    parse_pending(handler, files_to_process[k]) = None })

-----------------------------------------------------------------------------
(* Specification SpecMeta: files without recognised metadata appear and     *)
(* change on disk between scans by either handler; a write chunk may fail.  *)

\* A file without metadata or sidecar, and files with blank or plain text
\* and a sidecar.
MetaFiles ==
    { [file_mtime |-> t, raw |-> raw,
       sidecar |-> IF raw = <<>> THEN None ELSE Some(<< <<"B">> >>)] :
        t \in {100, 200}, raw \in MetaTexts }

InitMeta ==
    /\ images = {}
    /\ tags = {}
    /\ image_tags = {}
    /\ next_image_id = 1
    /\ next_tag_id = 1
    /\ disk = <<>>
    /\ last_scan = None
    /\ NoTraversal
    /\ NoQuery
    /\ NoWrites
    /\ NoPrecache
    /\ NoCache
    /\ NoThumbs

metaFrame == <<thumbVars, cursorVars, queryVars, writeVars, precacheVars, cacheVars>>

\* A file is created, or rewritten so that its mtime changes.
MetaWriteFile ==
    /\ last_scan = None
    /\ \E p \in ScanPaths, f \in MetaFiles :
         /\ p \in DOMAIN disk => disk[p].file_mtime # f.file_mtime
         /\ disk' = (p :> f) @@ disk
    /\ UNCHANGED <<dbVars, last_scan, metaFrame>>

\* scan_directory of `handler` up to its scan-complete event.
MetaScan(handler) ==
    /\ last_scan = None
    /\ LET image_files      == { [path |-> p, file_mtime |-> disk[p].file_mtime,
                                  raw |-> disk[p].raw, sidecar |-> disk[p].sidecar]
                                 : p \in DOMAIN disk }
           existing_mtimes  == unwrap_or_default(get_all_file_mtimes(DB, FALSE))
           files_to_process ==
               SortByPath({ f \in image_files : ~is_unchanged(f, existing_mtimes) })
           chunks           == MetaWriteChunks(handler, files_to_process)
           errors           == error_counter(handler, files_to_process)
       IN  \E fails \in [DOMAIN chunks -> ChunkFailures] :
             LET out == write_chunks([db |-> DB, indexed |-> 0, db_errors |-> 0,
                                      writes |-> 0], chunks, 1, fails)
             IN  /\ Commit(out.db)
                 /\ last_scan' =
                      [handler |-> handler,
                       processed |-> { files_to_process[k].path :
                                         k \in DOMAIN files_to_process },
                       db_errors |-> out.db_errors,
                       event |-> [total_files |-> Cardinality(image_files),
                                  indexed |-> out.indexed,
                                  errors |-> errors + out.db_errors]]
    /\ UNCHANGED <<disk, metaFrame>>

\* commands.rs, scan_directory
ScanDirectoryCommands ==
    /\ disk # <<>>
    /\ MetaScan("commands.rs")

\* commands/scan.rs, scan_directory
ScanDirectoryScan ==
    /\ disk # <<>>
    /\ MetaScan("commands/scan.rs")

MetaScanReturns ==
    /\ last_scan # None
    /\ last_scan' = None
    /\ UNCHANGED <<dbVars, disk, metaFrame>>

NextMeta ==
    \/ MetaWriteFile
    \/ ScanDirectoryCommands
    \/ ScanDirectoryScan
    \/ MetaScanReturns

SpecMeta == InitMeta /\ [][NextMeta]_vars

\* C25: when a scan whose writes all succeeded has completed, it counted no
\* error, and every file it had to process (each with missing, blank or
\* unrecognised metadata) has a row in images with the file's path and mtime
\* and the trimmed text as prompt, and carries the tags of its sidecar.
C25_UnparsedFilesAreIndexed ==
    (last_scan # None /\ last_scan.db_errors = 0) =>
        /\ last_scan.event.errors = 0
        /\ \A p \in last_scan.processed :
             \E r \in images :
                /\ r.filepath = p
                /\ r.file_mtime = disk[p].file_mtime
                /\ r.prompt = trim(disk[p].raw)
                /\ disk[p].sidecar # None =>
                     NormalizedTags(disk[p].sidecar.some) \subseteq TagsOfImage(DB, r.id)

-----------------------------------------------------------------------------
(* Storage reads and their failures (database/read_queries.rs).  A read     *)
(* fails at pool.get(), at prepare, or when a row is decoded.                *)

ReadFailures == {"none", "pool", "prepare", "row"}

\* get_image_by_id: pool.get()? and prepare()? and query_map()? propagate;
\* match rows.next() { Some(Ok(record)) => Ok(Some(record)), _ => Ok(None) }
get_image_by_id(db, id, fail) ==
    LET rows == { r \in db.images : r.id = id }
    IN  IF fail \in {"pool", "prepare"} THEN Err
        ELSE IF rows = {} \/ fail = "row" THEN Ok(None)
        ELSE Ok(Some(CHOOSE r \in rows : TRUE))

\* let existing_mtimes = db.get_all_file_mtimes().unwrap_or_default();
scan_existing_mtimes(db, fail) ==
    Ok(unwrap_or_default(get_all_file_mtimes(db, fail # "none")))

-----------------------------------------------------------------------------
(* Specification SpecRead: reads of a library of up to three images, any of *)
(* which may fail.                                                          *)

InitRead ==
    /\ \E ids \in SUBSET (1..NumRows) :
         images = { MakeRow(i, PathList[i], 1, NULL, Txt2ImgCode, FALSE, <<>>, 100) :
                    i \in ids }
    /\ tags = {}
    /\ image_tags = {}
    /\ next_image_id = NumRows + 1
    /\ next_tag_id = 1
    /\ NoTraversal
    /\ NoQuery
    /\ NoWrites
    /\ NoScan
    /\ NoPrecache
    /\ NoCache
    /\ NoThumbs

readFrame == <<dbVars, cursorVars, queryVars, supplied, latest_tags, auxVars>>

ReadCall(op, arg, fail, result) ==
    [op |-> op, arg |-> arg, fail |-> fail, result |-> result]

\* A caller reads one image; a row can fail to decode only when there is one.
GetImageById ==
    /\ last_call = None
    /\ \E id \in 1..NumRows, fail \in ReadFailures :
         /\ fail = "row" => \E r \in images : r.id = id
         /\ last_call' = ReadCall("get_image_by_id", id, fail,
                                  get_image_by_id(DB, id, fail))
    /\ UNCHANGED readFrame

\* The precache pass reads the file paths.
GetAllImageFilepathsDesc ==
    /\ last_call = None
    /\ \E fail \in ReadFailures :
         /\ fail = "row" => images # {}
         /\ last_call' = ReadCall("get_all_image_filepaths_desc", 0, fail,
                                  get_all_image_filepaths_desc(DB, fail # "none"))
    /\ UNCHANGED readFrame

\* The scan reads the stored mtimes.
ScanReadsMtimes ==
    /\ last_call = None
    /\ \E fail \in ReadFailures :
         /\ fail = "row" => images # {}
         /\ last_call' = ReadCall("scan_directory", 0, fail,
                                  scan_existing_mtimes(DB, fail))
    /\ UNCHANGED readFrame

ReadReturns ==
    /\ last_call # None
    /\ last_call' = None
    /\ UNCHANGED readFrame

NextRead ==
    \/ GetImageById
    \/ GetAllImageFilepathsDesc
    \/ ScanReadsMtimes
    \/ ReadReturns

SpecRead == InitRead /\ [][NextRead]_vars

\* C26: a read whose query failed (at the pool, at prepare or at a row) hands
\* an error to its caller, and the scan's read of the stored mtimes hands the
\* scan an error when the query failed.
C26_ReadFailuresAreReturned ==
    (last_call # None /\ last_call.fail # "none") => last_call.result = Err

-----------------------------------------------------------------------------
(* Specification SpecSort: complete get_images_cursor traversals under the  *)
(* sort modes on a text column, over tables whose model_name is NULL, a     *)
(* name below '~' ("alpha") or a name above it ("~z", as every name that    *)
(* starts with a non-ASCII character is).                                   *)

SortModelNames == {NULL, 1, 5}

SortTables ==
    { { MakeRow(i, PathList[i], 1, f[i], Txt2ImgCode, FALSE, <<>>, NULL) : i \in 1..NumRows }
      : f \in [1..NumRows -> SortModelNames] }

InitSort ==
    /\ images \in SortTables
    /\ tags = {}
    /\ image_tags = {}
    /\ next_image_id = NumRows + 1
    /\ next_tag_id = 1
    /\ sort_by \in {"name_asc", "name_desc", "model", "generation_type"}
    /\ generation_types = {}
    /\ limit \in 1..MaxLimit
    /\ next_cursor = None
    /\ pages = <<>>
    /\ pc = "start"
    /\ api = "get_images_cursor"
    /\ query = None
    /\ model_filter = None
    /\ include_tags = {}
    /\ exclude_tags = {}
    /\ offset = 0
    /\ paths = <<>>
    /\ NoWrites
    /\ NoScan
    /\ NoPrecache
    /\ NoCache
    /\ NoThumbs

\* The client of the traversal asks for the next page.
SortedPageCall ==
    /\ pc \in {"start", "paging"}
    /\ GetImagesCursorCall

NextSort == SortedPageCall

SpecSort == InitSort /\ [][NextSort]_vars

\* C27: in the complete ordering of a traversal under a non-id sort mode, the
\* rows whose sort field is NULL are together at one end: either no non-NULL
\* row comes after a NULL row, or no non-NULL row comes before one.
C27_NullsAtOneEnd ==
    LET cfg     == SortConfig_from_str(sort_by)
        out     == Flatten(pages)
        IsNull(i) == RowById(out[i])[cfg.field] = NULL
    IN  (pc = "done" /\ cfg.field # "id") =>
            \/ \A i, j \in 1..Len(out) : (i < j /\ IsNull(i)) => IsNull(j)
            \/ \A i, j \in 1..Len(out) : (i < j /\ IsNull(j)) => IsNull(i)

-----------------------------------------------------------------------------
(* The thread pools (commands.rs scan_pool, image_processing.rs io_pool).   *)
(* Each function holds one static OnceLock per storage profile and returns  *)
(* pool.get_or_init(build).  std::sync::OnceLock::get_or_init returns the   *)
(* value when the cell is complete; otherwise one caller runs the closure   *)
(* while the others block until it has finished; a closure that panics      *)
(* leaves the cell uninitialized.                                           *)

NumThreads == 2

PoolThreads == 1..NumThreads

\* The statics: HDD_POOL and SSD_POOL of scan_pool and of io_pool.
PoolCells == {"scan_pool", "io_pool"} \X StorageProfile

Uninit == [state |-> "uninit", builds |-> 0]

IdleThread == [pc |-> "idle"]

\* A cell without the Once: every caller that finds no value runs the closure.
once_may_runUnsynchronized(cell) == cell.state # "complete"

\* Once: may this caller become the one that runs the closure?
once_may_run(cell) == cell.state = "uninit"

InitPools ==
    /\ pool_cells = [c \in PoolCells |-> Uninit]
    /\ threads = [t \in PoolThreads |-> IdleThread]
    /\ partial_files = {}
    /\ images = {}
    /\ tags = {}
    /\ image_tags = {}
    /\ next_image_id = 1
    /\ next_tag_id = 1
    /\ images_fts = {}
    /\ images_fts_tri = {}
    /\ schema = {}
    /\ ops = <<>>
    /\ decode_failed = {}
    /\ cache_dir = TRUE
    /\ NoTraversal
    /\ NoQuery
    /\ NoWrites
    /\ NoScan
    /\ NoPrecache
    /\ NoCache

poolFrame == <<dbVars, cursorVars, queryVars, writeVars, scanVars, precacheVars, cacheVars,
               ops, decode_failed, cache_dir, images_fts, images_fts_tri, schema,
               partial_files>>

\* A thread calls scan_pool(profile) or io_pool(profile).
PoolCall(t) ==
    /\ threads[t].pc = "idle"
    /\ \E c \in PoolCells :
         threads' = [threads EXCEPT ![t] = [pc |-> "get_or_init", cell |-> c]]
    /\ UNCHANGED <<pool_cells, poolFrame>>

\* get_or_init finds the value: the closure is not run.
PoolGet(t) ==
    /\ threads[t].pc = "get_or_init"
    /\ pool_cells[threads[t].cell].state = "complete"
    /\ threads' = [threads EXCEPT ![t] = [pc |-> "returned", cell |-> threads[t].cell,
                                          pool |-> pool_cells[threads[t].cell].pool]]
    /\ UNCHANGED <<pool_cells, poolFrame>>

\* get_or_init makes this thread the one that runs the closure.
PoolInitBegins(t) ==
    /\ threads[t].pc = "get_or_init"
    /\ once_may_run(pool_cells[threads[t].cell])
    /\ pool_cells' = [pool_cells EXCEPT ![threads[t].cell].state = "running"]
    /\ threads' = [threads EXCEPT ![t].pc = "building"]
    /\ UNCHANGED poolFrame

\* The closure: ThreadPoolBuilder::new()...build().expect(..).  A pool that
\* was built is stored and returned; a failed build panics.
PoolBuild(t) ==
    /\ threads[t].pc = "building"
    /\ LET c == threads[t].cell
           n == pool_cells[c].builds + 1
       IN  \/ /\ pool_cells' = [pool_cells EXCEPT ![c] =
                    IF @.state = "complete" THEN [@ EXCEPT !.builds = n]
                    ELSE [state |-> "complete", builds |-> n, pool |-> n]]
              /\ threads' = [threads EXCEPT ![t] =
                    [pc |-> "returned", cell |-> c,
                     pool |-> IF pool_cells[c].state = "complete"
                              THEN pool_cells[c].pool ELSE n]]
           \/ /\ pool_cells[c].state # "complete"
              /\ pool_cells' = [pool_cells EXCEPT ![c].state = "uninit"]
              /\ threads' = [threads EXCEPT ![t] = IdleThread]
    /\ UNCHANGED poolFrame

\* The caller is done with the pool reference.
PoolReturns(t) ==
    /\ threads[t].pc = "returned"
    /\ threads' = [threads EXCEPT ![t] = IdleThread]
    /\ UNCHANGED <<pool_cells, poolFrame>>

NextPools ==
    \E t \in PoolThreads :
        \/ PoolCall(t)
        \/ PoolGet(t)
        \/ PoolInitBegins(t)
        \/ PoolBuild(t)
        \/ PoolReturns(t)

SpecPools == InitPools /\ [][NextPools]_vars

\* C28: for each function and storage profile at most one pool has been
\* built, and every call that has returned got the pool stored in the cell
\* of its function and profile.
C28_PoolBuiltOnce ==
    /\ \A c \in PoolCells : pool_cells[c].builds <= 1
    /\ \A t \in PoolThreads :
         threads[t].pc = "returned" =>
            /\ pool_cells[threads[t].cell].state = "complete"
            /\ threads[t].pool = pool_cells[threads[t].cell].pool

\* Two threads raced on the first use of one pool: one has built it and
\* returned, the other has returned the same pool without building.
C28_Witness ==
    /\ \A t \in PoolThreads : threads[t].pc = "returned"
    /\ \A t, u \in PoolThreads : threads[t].cell = threads[u].cell
    /\ pool_cells[threads[1].cell].builds = 1

-----------------------------------------------------------------------------
(* Opening the database (database.rs, Database::new and init_schema).       *)
(* init_schema is a sequence of statements, each committed on its own; the  *)
(* objects a database file holds are named "kind:name".                     *)

OptionalColumns == <<"file_mtime", "file_size", "quick_hash", "generation_type">>

Column(name) == "column:" \o name

\* The statements of init_schema, in the order they are executed.
SchemaSteps ==
    << [do |-> "create_images"] >>
    \o [k \in 1..Len(OptionalColumns) |-> [do |-> "add_column", name |-> OptionalColumns[k]]]
    \o << [do |-> "backfill_generation_types"],
          [do |-> "create", name |-> "table:images_fts", needs |-> {"table:images"}],
          [do |-> "create", name |-> "trigger:images_ai", needs |-> {"table:images_fts"}],
          [do |-> "create", name |-> "trigger:images_ad", needs |-> {"table:images_fts"}],
          [do |-> "create", name |-> "trigger:images_au", needs |-> {"table:images_fts"}],
          [do |-> "create", name |-> "table:images_fts_tri", needs |-> {"table:images"}],
          [do |-> "create", name |-> "trigger:images_ai_tri", needs |-> {"table:images_fts_tri"}],
          [do |-> "create", name |-> "trigger:images_ad_tri", needs |-> {"table:images_fts_tri"}],
          [do |-> "create", name |-> "trigger:images_au_tri", needs |-> {"table:images_fts_tri"}],
          [do |-> "backfill_trigram"],
          [do |-> "create", name |-> "table:tags", needs |-> {}],
          [do |-> "create", name |-> "table:image_tags", needs |-> {}],
          [do |-> "create", name |-> "index:idx_tags_tag", needs |-> {"table:tags"}],
          [do |-> "create", name |-> "index:idx_image_tags_tag_id", needs |-> {"table:image_tags"}],
          [do |-> "create", name |-> "index:idx_images_model_name", needs |-> {"table:images"}],
          [do |-> "create", name |-> "index:idx_images_file_mtime",
           needs |-> {Column("file_mtime")}],
          [do |-> "create", name |-> "index:idx_images_generation_type",
           needs |-> {Column("generation_type")}] >>

\* CREATE TABLE IF NOT EXISTS images (...): a new table has every column.
create_images(st) ==
    IF "table:images" \in st.schema THEN st
    ELSE [st EXCEPT !.schema = @ \cup {"table:images"}
                        \cup { Column(OptionalColumns[k]) : k \in DOMAIN OptionalColumns }]

\* An ALTER TABLE that is run without looking at table_info and whose
\* "duplicate column" error is returned.
add_columnStrict(st, name) ==
    IF Column(name) \in st.schema THEN [st EXCEPT !.result = Err]
    ELSE [st EXCEPT !.schema = @ \cup {Column(name)}]

\* ensure_optional_columns, one column: skipped when table_info lists it.
add_column(st, name) ==
    IF Column(name) \in st.schema THEN st
    ELSE [st EXCEPT !.schema = @ \cup {Column(name)}]

\* backfill_generation_types: UPDATE images SET generation_type = inferred
\* for the rows where it is NULL; the update triggers that exist fire.  The
\* rows of the model carry raw metadata without keyword: "txt2img".
backfill_generation_types(st) ==
    LET after == { IF r.generation_type = NULL
                   THEN [r EXCEPT !.generation_type = Txt2ImgCode] ELSE r : r \in st.images }
    IN  [st EXCEPT !.images = after,
                   !.images_fts = IF "trigger:images_au" \in st.schema
                                  THEN shadow_index(@, st.images, after) ELSE @,
                   !.images_fts_tri = IF "trigger:images_au_tri" \in st.schema
                                      THEN shadow_index(@, st.images, after) ELSE @]

\* INSERT OR IGNORE INTO images_fts_tri ... WHERE id NOT IN (SELECT rowid
\* FROM images_fts_tri): the rowids of an external-content table are read
\* from its content table, images.
backfill_trigram(st) ==
    LET indexed == { r.id : r \in st.images }
    IN  [st EXCEPT !.images_fts_tri =
            @ \cup { FtsEntry(r) : r \in { q \in st.images : q.id \notin indexed } }]

\* CREATE <object> IF NOT EXISTS; it fails when what it refers to is missing.
create_if_not_exists(st, step) ==
    IF ~(step.needs \subseteq st.schema) THEN [st EXCEPT !.result = Err]
    ELSE [st EXCEPT !.schema = @ \cup {step.name}]

schema_step(st, step) ==
    CASE step.do = "create_images" -> create_images(st)
      [] step.do = "add_column" -> add_column(st, step.name)
      [] step.do = "backfill_generation_types" -> backfill_generation_types(st)
      [] step.do = "backfill_trigram" -> backfill_trigram(st)
      [] OTHER -> create_if_not_exists(st, step)

\* init_schema up to and including statement `upto`; `?` returns at the
\* first error.
RECURSIVE init_schema(_, _, _)
init_schema(st, k, upto) ==
    IF k > upto \/ st.result = Err THEN st
    ELSE init_schema(schema_step(st, SchemaSteps[k]), k + 1, upto)

FullSchema ==
    { "table:images" } \cup { Column(OptionalColumns[k]) : k \in DOMAIN OptionalColumns }
      \cup { SchemaSteps[k].name : k \in { j \in DOMAIN SchemaSteps :
                                             SchemaSteps[j].do = "create" } }

-----------------------------------------------------------------------------
(* Specification SpecOpen: a database file of an older version (or none) is *)
(* opened any number of times; an open may be cut short after any           *)
(* statement (the process is killed).                                       *)

NumOldRows == 2

\* Older files: none; the first tables only; with the ranked index; with
\* the mtime column and every table but no generation_type.
OldSchemas ==
    { {},
      {"table:images", "table:tags", "table:image_tags", "index:idx_images_model_name"},
      {"table:images", "table:tags", "table:image_tags", "index:idx_images_model_name",
       "table:images_fts", "trigger:images_ai", "trigger:images_ad", "trigger:images_au"},
      FullSchema \ {Column("generation_type"), "index:idx_images_generation_type",
                    Column("quick_hash")} }

InitOpen ==
    /\ schema \in OldSchemas
    /\ \E ids \in SUBSET (1..NumOldRows) :
         /\ "table:images" \notin schema => ids = {}
         /\ images = { MakeRow(i, PathList[i], 1, NULL, NULL, FALSE, <<"a">>,
                               IF Column("file_mtime") \in schema THEN 100 ELSE NULL)
                       : i \in ids }
         /\ \E tagged \in SUBSET ids :
              /\ image_tags = { [image_id |-> i, tag_id |-> 1] : i \in tagged }
              /\ tags = IF tagged = {} THEN {} ELSE {[id |-> 1, tag |-> <<"a">>]}
    /\ next_image_id = NumOldRows + 1
    /\ next_tag_id = 2
    /\ images_fts = IF "trigger:images_ai" \in schema
                    THEN { FtsEntry(r) : r \in images } ELSE {}
    /\ images_fts_tri = IF "trigger:images_ai_tri" \in schema
                        THEN { FtsEntry(r) : r \in images } ELSE {}
    /\ pool_cells = <<>>
    /\ threads = <<>>
    /\ partial_files = {}
    /\ ops = <<>>
    /\ decode_failed = {}
    /\ cache_dir = TRUE
    /\ NoTraversal
    /\ NoQuery
    /\ NoWrites
    /\ NoScan
    /\ NoPrecache
    /\ NoCache

openFrame == <<tags, image_tags, next_image_id, next_tag_id, cursorVars, queryVars,
               supplied, latest_tags, scanVars, precacheVars, cacheVars, ops,
               decode_failed, cache_dir, poolVars, partial_files>>

OpenState ==
    [schema |-> schema, images |-> images, images_fts |-> images_fts,
     images_fts_tri |-> images_fts_tri, result |-> Ok(0)]

OpenTo(upto, op) ==
    LET out == init_schema(OpenState, 1, upto)
    IN  /\ schema' = out.schema
        /\ images' = out.images
        /\ images_fts' = out.images_fts
        /\ images_fts_tri' = out.images_fts_tri
        /\ last_call' = [op |-> op, result |-> out.result,
                         before |-> [schema |-> schema, images |-> images, tags |-> tags,
                                     image_tags |-> image_tags]]

\* Database::new: every statement of init_schema.
Open ==
    /\ last_call = None
    /\ OpenTo(Len(SchemaSteps), "open")
    /\ UNCHANGED openFrame

\* The process ends while init_schema runs.
OpenInterrupted ==
    /\ last_call = None
    /\ \E upto \in 0..(Len(SchemaSteps) - 1) : OpenTo(upto, "interrupted")
    /\ UNCHANGED openFrame

\* The application runs, and ends, without writing.
OpenReturns ==
    /\ last_call # None
    /\ last_call' = None
    /\ UNCHANGED <<schema, images, images_fts, images_fts_tri, openFrame>>

NextOpen ==
    \/ Open
    \/ OpenInterrupted
    \/ OpenReturns

SpecOpen == InitOpen /\ [][NextOpen]_vars

\* The values of the columns the row had before the open.
SameRow(old, new) ==
    /\ new.id = old.id
    /\ [new EXCEPT !.generation_type = NULL] = [old EXCEPT !.generation_type = NULL]
    /\ old.generation_type # NULL => new.generation_type = old.generation_type

-----------------------------------------------------------------------------
(* Specification SpecFilter: one filtered query (query_images, or a         *)
(* traversal of filter_images_cursor) over images whose tags were stored by *)
(* the write paths, which normalize with trim().to_ascii_lowercase().       *)

\* The tags as the callers write them, when storing and when filtering.
CallerTags == << <<" ", "A">>, <<"É">>, <<"é">> >>

StoredTag(k) == to_ascii_lowercase(trim(CallerTags[k]))

\* INSERT OR IGNORE INTO tags: the id of the first input with that text.
StoredTagId(k) == CHOOSE j \in DOMAIN CallerTags :
                     /\ StoredTag(j) = StoredTag(k)
                     /\ \A i \in 1..(j - 1) : StoredTag(i) # StoredTag(k)

FilterQueries == { None, Some(<<"b", "a", "a">>), Some(<<" ", "a", "a", "b", " ">>) }

InitFilter ==
    /\ images = { MakeRow(1, PathList[1], 1, 5, GridCode, FALSE,
                          <<"b", "a", "a", "b">>, NULL),
                  MakeRow(2, PathList[2], 5, NULL, Txt2ImgCode, FALSE,
                          <<"a", "a", "b", " ", "b", "a">>, NULL) }
    /\ tags = { [id |-> StoredTagId(k), tag |-> StoredTag(k)] : k \in DOMAIN CallerTags }
    /\ \E carried \in [1..2 -> SUBSET DOMAIN CallerTags] :
          image_tags = UNION { { [image_id |-> i, tag_id |-> StoredTagId(k)]
                                 : k \in carried[i] } : i \in 1..2 }
    /\ next_image_id = 3
    /\ next_tag_id = Len(CallerTags) + 1
    /\ limit = 2
    /\ offset = 0
    /\ next_cursor = None
    /\ pages = <<>>
    /\ paths = <<>>
    /\ pc = "start"
    /\ query \in FilterQueries
    /\ \E inc, exc \in 0..Len(CallerTags) :
          /\ include_tags = { CallerTags[k] : k \in {inc} \ {0} }
          /\ exclude_tags = { CallerTags[k] : k \in {exc} \ {0} }
    /\ \/ /\ api = "filter_images_cursor"
          /\ sort_by = "newest"
          /\ \E f \in CursorFilters :
                /\ generation_types = f.generation_types
                /\ model_filter = f.model_filter
       \/ /\ api = "query_images"
          /\ sort_by = "newest"
          /\ generation_types = {}
          /\ model_filter = None
    /\ NoWrites
    /\ NoScan
    /\ NoPrecache
    /\ NoCache
    /\ NoThumbs

NextFilter ==
    \/ FilterImagesCursorCall
    \/ QueryImagesCall

SpecFilter == InitFilter /\ [][NextFilter]_vars

\* The image carries the tag: the texts are equal after trimming and
\* lower-casing.
CarriesTag(r, tag) ==
    \E it \in image_tags, t \in tags :
        /\ it.image_id = r.id
        /\ it.tag_id = t.id
        /\ to_lowercase(trim(t.tag)) = to_lowercase(trim(tag))

\* The row matches the text query on the index the first answer came from.
MatchesQuery(r) ==
    \/ query = None
    \/ /\ query # None
       /\ IF paths[1].from = "ranked"
          THEN PorterMatch(r.prompt, sanitize_fts_query(query.some))
          ELSE TrigramMatch(r.prompt, trim(query.some))

\* The ids of the rows of the first answer; its limit is the number of images.
ReturnedIds == { pages[1][k] : k \in DOMAIN pages[1] }

\* C30: the first answer of a filtered query holds exactly the images that carry
\* every include tag and no exclude tag, tags compared after trimming and
\* lower-casing, and that match the text query and the other filters.
C30_TagFilterExact ==
    Len(pages) >= 1 =>
        ReturnedIds = { r.id : r \in { q \in images :
                            /\ \A tag \in include_tags : CarriesTag(q, tag)
                            /\ \A tag \in exclude_tags : ~CarriesTag(q, tag)
                            /\ RowFilters(q, generation_types, model_filter)
                            /\ MatchesQuery(q) } }

-----------------------------------------------------------------------------
(* The migration tool (bin/migrate_thumbnail_cache.rs) and specification    *)
(* SpecMigrate: a cache directory that holds legacy .webp files is served   *)
(* by generate_thumbnails and converted by migrate_cache.                   *)

\* What encode_jpeg and fs::remove_file do for one .webp entry: the legacy
\* file does not decode, File::create fails, the encoder fails after
\* File::create made the file, or the JPEG is written; and whether the
\* removal of the .webp succeeds.
MigrationOutcomes ==
    {"decode_failed", "create_failed", "encode_failed", "written"} \X BOOLEAN

jpg_path(webp) == [hash |-> webp.hash, ext |-> "jpg"]

LegacyEntries(cache) == { e \in cache : e.ext = "webp" }

\* A loop body that removes the .webp only when the .jpg was there already
\* or encode_jpeg returned Ok.
migrate_entryKeepsOnFailure(cache, webp, outcome) ==
    LET had_jpg == jpg_path(webp) \in cache
        created == IF ~had_jpg /\ outcome[1] \in {"encode_failed", "written"}
                   THEN cache \cup {jpg_path(webp)} ELSE cache
    IN  IF outcome[2] /\ (had_jpg \/ outcome[1] = "written")
        THEN created \ {webp} ELSE created

\* The body of the loop of migrate_cache for one .webp entry: encode_jpeg
\* unless the .jpg exists, then fs::remove_file(&path).
migrate_entry(cache, webp, outcome) ==
    LET had_jpg == jpg_path(webp) \in cache
        created == IF ~had_jpg /\ outcome[1] \in {"encode_failed", "written"}
                   THEN cache \cup {jpg_path(webp)} ELSE cache
    IN  IF outcome[2] THEN created \ {webp} ELSE created

\* migrate_cache: every .webp entry of read_dir in turn; an entry changes
\* only the two files of its own name.
migrate_cache(cache, dir_exists, outcomes) ==
    IF ~dir_exists THEN [cache_files |-> cache, result |-> Err]
    ELSE [cache_files |->
              (cache \ UNION { {e, jpg_path(e)} : e \in LegacyEntries(cache) })
                \cup UNION { migrate_entry({e, jpg_path(e)} \cap cache, e, outcomes[e])
                             : e \in LegacyEntries(cache) },
          result |-> Ok(Cardinality(LegacyEntries(cache)))]

InitMigrate ==
    /\ \E present \in SUBSET BatchSources :
         disk \in [present -> {"good", "bad"}]
    /\ cache_files \in SUBSET CacheNames
    /\ thumbnail_index = {}
    /\ failed_thumbnail_sources = {}
    /\ last_op = None
    /\ images = {}
    /\ tags = {}
    /\ image_tags = {}
    /\ next_image_id = 1
    /\ next_tag_id = 1
    /\ last_scan = None
    /\ NoTraversal
    /\ NoQuery
    /\ NoWrites
    /\ NoPrecache
    /\ NoThumbs

\* The tool runs while the application does not.
MigrateCache ==
    /\ last_op = None
    /\ \E outcomes \in [LegacyEntries(cache_files) -> MigrationOutcomes] :
         LET out == migrate_cache(cache_files, cache_dir, outcomes)
         IN  /\ cache_files' = out.cache_files
             /\ last_op' = [op |-> "migrate_cache", outcomes |-> outcomes,
                            cache |-> cache_files, result |-> out.result]
    /\ UNCHANGED <<disk, thumbnail_index, failed_thumbnail_sources, batchFrame>>

\* On-demand generation: generate_single_thumbnail for the sources of a
\* batch.
MigrateOnDemand ==
    /\ last_op = None
    /\ GenerateThumbnails

NextMigrate ==
    \/ MigrateOnDemand
    \/ MigrateCache
    \/ BatchReturns

SpecMigrate == InitMigrate /\ [][NextMigrate]_vars

\* The call that has just returned wrote the JPEG that replaces the legacy
\* file, or (the tool) found it written.
ReplacementWritten(webp) ==
    /\ jpg_path(webp) \in cache_files
    /\ IF last_op.op = "migrate_cache"
       THEN jpg_path(webp) \in last_op.cache \/ last_op.outcomes[webp][1] = "written"
       ELSE \E k \in DOMAIN last_op.filepaths :
               /\ legacy_thumbnail_path(last_op.filepaths[k]) = webp
               /\ last_op.outcomes[k] = "written"

\* C31: a legacy file that a generation or a run of the migration tool
\* removed has its JPEG replacement, written successfully by that call (or
\* found by the tool); a legacy file whose re-encoding failed is still there.
C31_LegacyRemovedAfterReplacement ==
    last_op # None =>
        \A webp \in LegacyEntries(last_op.cache) :
            webp \notin cache_files => ReplacementWritten(webp)

-----------------------------------------------------------------------------
(* Specification SpecWipe: the application has started (the index lists the *)
(* JPEGs of the cache directory), every source is on disk, and the user     *)
(* empties the cache directory between lookups.                             *)

InitWipe ==
    /\ disk \in [BatchSources -> {"good", "bad"}]
    /\ cache_files \in SUBSET CacheNames
    /\ thumbnail_index = build_thumbnail_index(cache_files, TRUE)
    /\ failed_thumbnail_sources = {}
    /\ last_op = None
    /\ images = {}
    /\ tags = {}
    /\ image_tags = {}
    /\ next_image_id = 1
    /\ next_tag_id = 1
    /\ last_scan = None
    /\ NoTraversal
    /\ NoQuery
    /\ NoWrites
    /\ NoPrecache
    /\ NoThumbs

\* The files of the cache directory are removed from outside.
WipeCache ==
    /\ last_op = None
    /\ cache_files # {}
    /\ cache_files' = {}
    /\ UNCHANGED <<disk, thumbnail_index, failed_thumbnail_sources, last_op, batchFrame>>

\* get_thumbnail_path: the key when the index held it, the file was found or
\* was generated (each of which leaves the key in the index), the source path
\* otherwise.
WipeGetThumbnailPath ==
    /\ last_op = None
    /\ \E p \in BatchSources, o \in [prepare_ok : BOOLEAN, decode_ok : BOOLEAN] :
         LET fs  == get_thumbnail_path(FS, p, [o EXCEPT !.decode_ok = @ /\ disk[p] = "good"])
             key == get_thumbnail_cache_path(p)
         IN  /\ SetFS(fs)
             /\ last_op' = [op |-> "get_thumbnail_path",
                            result |-> Ok(<< <<p, IF o.prepare_ok /\ key \in fs.thumbnail_index
                                                  THEN key ELSE p>> >>)]
    /\ UNCHANGED batchFrame

NextWipe ==
    \/ WipeCache
    \/ WipeGetThumbnailPath
    \/ GetThumbnailPaths
    \/ BatchReturns

SpecWipe == InitWipe /\ [][NextWipe]_vars

\* C32: every path a lookup has just returned is the source itself or a file
\* that is in the cache directory, whatever was removed from the directory
\* before the lookup.
C32_LookupReturnsExistingFile ==
    last_op # None =>
        \A k \in DOMAIN last_op.result.ok :
            \/ last_op.result.ok[k][2] = last_op.result.ok[k][1]
            \/ last_op.result.ok[k][2] \in cache_files

-----------------------------------------------------------------------------
(* Specification SpecDelete: delete_images on a library whose images may be *)
(* protected, tagged, cached and missing from disk; the removal of a file   *)
(* or thumbnail and the database delete may fail.                           *)

NumDeleteImages == 2

DeleteIds == 1..NumDeleteImages

Protections == {"none", "locked", "favorite"}

InitDelete ==
    /\ \E protected \in [DeleteIds -> Protections] :
         images = { [MakeRow(i, CachePathList[i], 1, NULL, Txt2ImgCode, FALSE, <<>>, 100)
                       EXCEPT !.is_locked = (protected[i] = "locked"),
                              !.is_favorite = (protected[i] = "favorite")]
                    : i \in DeleteIds }
    /\ \E tagged \in SUBSET DeleteIds :
         /\ image_tags = { [image_id |-> i, tag_id |-> 1] : i \in tagged }
         /\ tags = IF tagged = {} THEN {} ELSE {[id |-> 1, tag |-> <<"a">>]}
    /\ next_image_id = NumDeleteImages + 1
    /\ next_tag_id = 2
    /\ \E present \in SUBSET DeleteIds :
         disk = [p \in { CachePathList[i] : i \in present } |-> 100]
    /\ \E cached \in SUBSET DeleteIds :
         /\ cache_files = { get_thumbnail_cache_path(CachePathList[i]) : i \in cached }
         /\ thumbnail_index = cache_files
    /\ failed_thumbnail_sources = {}
    /\ last_scan = None
    /\ last_op = None
    /\ NoTraversal
    /\ NoQuery
    /\ NoWrites
    /\ NoPrecache
    /\ NoThumbs

\* What the handler was given, what there was, and what it returned.
Deleted(ids, o, records, out) ==
    [op |-> "delete_images", ids |-> ids, o |-> o, records |-> records,
     images |-> images, image_tags |-> image_tags, disk |-> disk,
     cache_files |-> cache_files, thumbnail_index |-> thumbnail_index,
     result |-> out.result, deleted_ids |-> out.deleted_ids,
     blocked_protected_ids |-> out.blocked_protected_ids,
     failed_paths |-> out.failed_paths]

DeleteImagesCall ==
    /\ last_op = None
    /\ \E ids \in SUBSET DeleteIds :
         \E o \in DeleteOutcomes(ids) :
           LET out == delete_images(DB, FS, ids, o)
           IN  /\ Commit(out.db)
               /\ SetFS(out.fs)
               /\ last_op' = Deleted(ids, o, { r \in images : r.id \in ids }, out)
    /\ UNCHANGED <<thumbVars, cursorVars, queryVars, writeVars, last_scan, precacheVars>>

NextDelete ==
    \/ DeleteImagesCall
    \/ ClientContinues

SpecDelete == InitDelete /\ [][NextDelete]_vars

\* The file of the row was there and its removal failed.
FileNotDeleted(r) ==
    /\ r.id \in last_op.ids
    /\ ~(r.is_locked \/ r.is_favorite)
    /\ r.filepath \in DOMAIN last_op.disk
    /\ ~last_op.o.file_ok[r.id]

\* The row was requested, is not protected, and its file was deleted or was
\* missing.
FileGone(r) ==
    /\ r.id \in last_op.ids
    /\ ~(r.is_locked \/ r.is_favorite)
    /\ r.filepath \in DOMAIN last_op.disk => last_op.o.file_ok[r.id]

-----------------------------------------------------------------------------
(* Specification SpecLock: delete_images runs in two steps (it reads the    *)
(* records, then it works through them) while set_images_locked and         *)
(* set_images_favorite calls run.                                           *)

\* UPDATE images SET is_locked = ? WHERE id IN (...)
set_images_locked(db, ids, is_locked) ==
    [db EXCEPT !.images = { IF r.id \in ids THEN [r EXCEPT !.is_locked = is_locked] ELSE r
                            : r \in @ }]

\* UPDATE images SET is_favorite = ? WHERE id IN (...)
set_images_favorite(db, ids, is_favorite) ==
    [db EXCEPT !.images = { IF r.id \in ids THEN [r EXCEPT !.is_favorite = is_favorite]
                            ELSE r : r \in @ }]

lockFrame == <<thumbVars, cursorVars, queryVars, writeVars, last_scan, precacheVars>>

\* Every image has its file and a cached thumbnail; none is protected yet.
InitLock ==
    /\ images = { MakeRow(i, CachePathList[i], 1, NULL, Txt2ImgCode, FALSE, <<>>, 100)
                  : i \in DeleteIds }
    /\ tags = {}
    /\ image_tags = {}
    /\ next_image_id = NumDeleteImages + 1
    /\ next_tag_id = 1
    /\ disk = [p \in { CachePathList[i] : i \in DeleteIds } |-> 100]
    /\ cache_files = { get_thumbnail_cache_path(CachePathList[i]) : i \in DeleteIds }
    /\ thumbnail_index = cache_files
    /\ failed_thumbnail_sources = {}
    /\ last_scan = None
    /\ last_op = None
    /\ NoTraversal
    /\ NoQuery
    /\ NoWrites
    /\ NoPrecache
    /\ NoThumbs

\* get_images_by_ids of delete_images: the records as they are now.
LockDeleteReads ==
    /\ last_op = None
    /\ \E ids \in SUBSET DeleteIds :
         /\ ids # {}
         /\ last_op' = [op |-> "delete_images", pc |-> "read", ids |-> ids,
                        records |-> { r \in images : r.id \in ids }]
    /\ UNCHANGED <<dbVars, disk, cache_files, thumbnail_index, failed_thumbnail_sources,
                   lockFrame>>

\* The rest of delete_images, on the records it read; the removal of a file
\* and the database delete may fail.
LockDeleteRemoves ==
    /\ last_op # None
    /\ IF last_op = None THEN FALSE ELSE last_op.pc = "read"
    /\ \E o \in { oc \in DeleteOutcomes(last_op.ids) :
                    ~oc.read_fail /\ \A i \in last_op.ids : oc.thumb_ok[i] } :
         LET out == delete_records(last_op.records, DB, FS, o)
         IN  /\ Commit(out.db)
             /\ SetFS(out.fs)
             /\ last_op' = Deleted(last_op.ids, o, last_op.records, out) @@ [pc |-> "done"]
    /\ UNCHANGED lockFrame

SetImagesLocked ==
    /\ IF last_op = None THEN TRUE ELSE last_op.pc = "read"
    /\ \E ids \in SUBSET DeleteIds, is_locked \in BOOLEAN :
         /\ ids # {}
         /\ Commit(set_images_locked(DB, ids, is_locked))
    /\ UNCHANGED <<disk, cacheVars, lockFrame>>

SetImagesFavorite ==
    /\ IF last_op = None THEN TRUE ELSE last_op.pc = "read"
    /\ \E ids \in SUBSET DeleteIds, is_favorite \in BOOLEAN :
         /\ ids # {}
         /\ Commit(set_images_favorite(DB, ids, is_favorite))
    /\ UNCHANGED <<disk, cacheVars, lockFrame>>

LockDeleteReturns ==
    /\ last_op # None
    /\ IF last_op = None THEN FALSE ELSE last_op.pc = "done"
    /\ last_op' = None
    /\ UNCHANGED <<dbVars, disk, cache_files, thumbnail_index, failed_thumbnail_sources,
                   lockFrame>>

NextLock ==
    \/ LockDeleteReads
    \/ LockDeleteRemoves
    \/ SetImagesLocked
    \/ SetImagesFavorite
    \/ LockDeleteReturns

SpecLock == InitLock /\ [][NextLock]_vars

-----------------------------------------------------------------------------
(* Specification SpecEvents: precache_all_thumbnails returns Ok once its    *)
(* worker thread is spawned; the thread then runs to its end, by a return   *)
(* or by a panic.  The frontend collects the events of the pass.            *)

\* The worker panics in the first generate_thumbnails call (io_pool builds
\* its thread pool with expect): the events of the classification loop have
\* been emitted and the discovered keys are in the index.
precache_workerPanics(fs, dir, db, o) ==
    LET prepared      == prepare_cache_dir(dir, o.prepare_ok)
        all_filepaths == FilepathsDesc(db.images)
        total         == Len(all_filepaths)
        sorted        == precache_classify(all_filepaths, 1, fs.thumbnail_index,
                             fs.cache_files,
                             [skipped |-> 0, discovered |-> <<>>, pending |-> <<>>,
                              events |-> <<ThumbnailPrecacheProgress(0, total, 0, 0, 0,
                                                                     "preparing")>>])
    IN  IF prepared.result = Err \/ o.read_fail \/ total = 0 \/ sorted.pending = <<>>
        THEN precache_worker(fs, dir, db, o)
        ELSE WorkerEnded([fs EXCEPT !.thumbnail_index = @ \cup SeqToSet(sorted.discovered)],
                         prepared.cache_dir, sorted.events, "panic")

\* What the steps of a pass may do.
PassOutcomes ==
    [prepare_ok : BOOLEAN, read_fail : BOOLEAN, chunk_prepare_ok : BOOLEAN,
     profile : StorageProfile, outcomes : [1..NumPassImages -> {"written", "encode_failed"}]]

\* precache_all_thumbnails: the compare_exchange succeeds, the thread is
\* spawned, the call returns Ok.
EventsCallAccepted ==
    /\ last_op = None
    /\ compare_exchange(thumbnail_precache_running, FALSE, TRUE).ok
    /\ thumbnail_precache_running' = TRUE
    /\ last_op' = [op |-> "precache_all_thumbnails", pc |-> "running", events |-> <<>>,
                   exit |-> "none"]
    /\ UNCHANGED <<disk, cache_files, thumbnail_index, failed_thumbnail_sources, cache_dir,
                   passFrame>>

EventsWorkerEnds(out) ==
    /\ SetFS(out.fs)
    /\ cache_dir' = out.cache_dir
    /\ last_op' = [last_op EXCEPT !.pc = "ended", !.events = out.events, !.exit = out.exit]
    /\ thumbnail_precache_running' = RunningGuard_drop(TRUE)
    /\ UNCHANGED passFrame

\* The closure of the worker thread returns.
EventsWorkerRuns ==
    /\ last_op # None
    /\ IF last_op = None THEN FALSE ELSE last_op.pc = "running"
    /\ \E o \in PassOutcomes : EventsWorkerEnds(precache_worker(FS, cache_dir, DB, o))

\* The closure of the worker thread returns or unwinds.
EventsWorkerPanics ==
    /\ last_op # None
    /\ IF last_op = None THEN FALSE ELSE last_op.pc = "running"
    /\ \E o \in PassOutcomes : EventsWorkerEnds(precache_workerPanics(FS, cache_dir, DB, o))

\* The frontend has the events of the pass.
EventsReturns ==
    /\ last_op # None
    /\ IF last_op = None THEN FALSE ELSE last_op.pc = "ended"
    /\ last_op' = None
    /\ UNCHANGED <<disk, cache_files, thumbnail_index, failed_thumbnail_sources,
                   cache_dir, thumbnail_precache_running, passFrame>>

NextEvents ==
    \/ EventsCallAccepted
    \/ EventsWorkerRuns
    \/ EventsWorkerPanics
    \/ EventsReturns
    \/ CacheDirectoryRemoved

\* A spawned thread runs until its closure ends.
SpecEvents ==
    InitPass /\ [][NextEvents]_vars /\ WF_vars(EventsWorkerRuns \/ EventsWorkerPanics)

PassRunning == IF last_op = None THEN FALSE ELSE last_op.pc = "running"

PassEnded == IF last_op = None THEN FALSE ELSE last_op.pc = "ended"

CompleteEvents ==
    IF last_op = None THEN {}
    ELSE { k \in DOMAIN last_op.events : last_op.events[k].event = "thumbnail-cache-complete" }

\* C35: the worker of every accepted call ends, and when it has ended it has
\* emitted exactly one thumbnail-cache-complete event, whatever the exit path.
C35_OneCompleteEventPerPass ==
    /\ [](PassEnded => Cardinality(CompleteEvents) = 1)
    /\ (PassRunning ~> PassEnded)

-----------------------------------------------------------------------------
(* The counters of the events of a pass (specification SpecPass).           *)

\* The pass of last_op read the library: it ended by the empty-library
\* return or after the chunk loop.
LibraryRead ==
    IF last_op = None THEN FALSE ELSE last_op.exit \in {"empty_library", "completed"}

ProgressEvents ==
    IF last_op = None THEN {}
    ELSE { k \in DOMAIN last_op.events :
             last_op.events[k].event = "thumbnail-cache-progress" }

CountersAddUp(e) ==
    /\ e.event = "thumbnail-cache-complete"
    /\ e.total = last_op.library
    /\ e.generated + e.skipped + e.failed = e.total

\* C36: the completion event of a pass that read the library has generated +
\* skipped + failed = total, the number of indexed images; in the progress
\* events of the pass current is at most total and generated, skipped and
\* failed never decrease.
C36_EventCountersAddUp ==
    LibraryRead =>
        /\ CountersAddUp(last_op.events[Len(last_op.events)])
        /\ \A k \in ProgressEvents :
             /\ last_op.events[k].current <= last_op.events[k].total
             /\ last_op.events[k].total = last_op.library
             /\ \A j \in ProgressEvents :
                  j < k => /\ last_op.events[j].generated <= last_op.events[k].generated
                           /\ last_op.events[j].skipped <= last_op.events[k].skipped
                           /\ last_op.events[j].failed <= last_op.events[k].failed

\* A pass over two images skipped the cached one and failed on the other.
C36_Witness ==
    /\ LibraryRead
    /\ IF last_op = None THEN FALSE
       ELSE LET e == last_op.events[Len(last_op.events)]
            IN  e.total = 2 /\ e.skipped = 1 /\ e.failed = 1 /\ Len(last_op.events) >= 4

-----------------------------------------------------------------------------
(* Specification SpecEncode: concurrent closures of resolve_thumbnail_paths *)
(* for sources that decode, step by step through generate_single_thumbnail  *)
(* and encode_jpeg_thumbnail.  partial_files holds the cache files whose    *)
(* JPEG is not written out.                                                 *)

\* Number of closures that run at a time (threads of io_pool, or calls).
NumEncoders == 2

Encoders == 1..NumEncoders

EncodeSources == { PassPathList[i] : i \in DOMAIN PassPathList }

IdleEncoder == [pc |-> "idle"]

\* A File::create that writes to a name of its own: the cache path is
\* untouched until the encoded file is moved there.
File_createAside(cache, partial, path) ==
    [cache_files |-> cache, partial_files |-> partial]

\* File::create(out_path): the file exists and is empty, whatever it held.
File_create(cache, partial, path) ==
    [cache_files |-> cache \cup {path}, partial_files |-> partial \cup {path}]

\* encoder.encode returned Ok and the writer is dropped.  The file holds the
\* whole JPEG, unless another closure that truncated it is still writing:
\* then bytes may be missing (torn).
encode_jpeg_thumbnail(cache, partial, path, overlapped, torn) ==
    [cache_files |-> cache \cup {path},
     partial_files |-> IF overlapped /\ torn THEN partial ELSE partial \ {path}]

InitEncode ==
    /\ images = {}
    /\ tags = {}
    /\ image_tags = {}
    /\ next_image_id = 1
    /\ next_tag_id = 1
    /\ disk = [s \in EncodeSources |-> "good"]
    /\ last_scan = None
    /\ cache_dir = TRUE
    /\ ops = [w \in Encoders |-> IdleEncoder]
    /\ decode_failed = {}
    /\ images_fts = {}
    /\ images_fts_tri = {}
    /\ schema = {}
    /\ pool_cells = <<>>
    /\ threads = <<>>
    /\ partial_files = {}
    /\ NoCache
    /\ NoTraversal
    /\ NoQuery
    /\ NoWrites
    /\ NoPrecache

encodeFrame == <<dbVars, cursorVars, queryVars, writeVars, scanVars, precacheVars,
                 thumbnail_index, failed_thumbnail_sources, last_op, decode_failed,
                 cache_dir, images_fts, images_fts_tri, schema, poolVars>>

\* The cache path is returned as the thumbnail of the source.
Served(w, path) ==
    [pc |-> "served", source |-> ops[w].source, path |-> path,
     complete |-> path \notin partial_files']

\* A closure of resolve_thumbnail_paths starts for a filepath.
EncodeRequested(w) ==
    /\ ops[w].pc = "idle"
    /\ \E s \in EncodeSources : ops' = [ops EXCEPT ![w] = [pc |-> "check", source |-> s]]
    /\ UNCHANGED <<cache_files, partial_files, encodeFrame>>

\* resolve_thumbnail_paths: if thumb.exists() the path is returned.
EncodeChecks(w) ==
    /\ ops[w].pc = "check"
    /\ UNCHANGED <<cache_files, partial_files, encodeFrame>>
    /\ LET thumb == get_thumbnail_cache_path(ops[w].source)
       IN  ops' = [ops EXCEPT ![w] = IF thumb \in cache_files THEN Served(w, thumb)
                                     ELSE [pc |-> "generate", source |-> ops[w].source]]

\* generate_single_thumbnail: if thumb_path.exists() it is returned; else the
\* source is opened and resized.
EncodeSkipsCached(w) ==
    /\ ops[w].pc = "generate"
    /\ UNCHANGED <<cache_files, partial_files, encodeFrame>>
    /\ LET thumb_path == get_thumbnail_cache_path(ops[w].source)
       IN  ops' = [ops EXCEPT ![w] = IF thumb_path \in cache_files
                                     THEN Served(w, thumb_path)
                                     ELSE [pc |-> "create", source |-> ops[w].source]]

\* encode_jpeg_thumbnail: File::create(out_path)?
EncodeCreates(w) ==
    /\ ops[w].pc = "create"
    /\ UNCHANGED encodeFrame
    /\ \E created \in BOOLEAN :
         LET out == File_create(cache_files, partial_files,
                                get_thumbnail_cache_path(ops[w].source))
         IN  IF created
             THEN /\ cache_files' = out.cache_files
                  /\ partial_files' = out.partial_files
                  /\ ops' = [ops EXCEPT ![w].pc = "encode"]
             ELSE /\ UNCHANGED <<cache_files, partial_files>>
                  /\ ops' = [ops EXCEPT ![w].pc = "failed"]

\* encode_jpeg_thumbnail: encoder.encode(...)?; on Ok generate_single_thumbnail
\* returns thumb_path, on Err the error, and the file stays as it is.
EncodeWrites(w) ==
    /\ ops[w].pc = "encode"
    /\ UNCHANGED encodeFrame
    /\ \E encoded, torn \in BOOLEAN :
         LET path       == get_thumbnail_cache_path(ops[w].source)
             overlapped == \E v \in Encoders \ {w} :
                              /\ ops[v].pc = "encode"
                              /\ ops[v].source = ops[w].source
             out        == encode_jpeg_thumbnail(cache_files, partial_files, path,
                                                 overlapped, torn)
         IN  IF encoded
             THEN /\ cache_files' = out.cache_files
                  /\ partial_files' = out.partial_files
                  /\ ops' = [ops EXCEPT ![w] = Served(w, path)]
             ELSE /\ UNCHANGED <<cache_files, partial_files>>
                  /\ ops' = [ops EXCEPT ![w].pc = "failed"]

\* The closure returns its pair to the caller.
EncodeReturns(w) ==
    /\ ops[w].pc \in {"served", "failed"}
    /\ ops' = [ops EXCEPT ![w] = IdleEncoder]
    /\ UNCHANGED <<cache_files, partial_files, encodeFrame>>

NextEncode ==
    \E w \in Encoders :
        \/ EncodeRequested(w)
        \/ EncodeChecks(w)
        \/ EncodeSkipsCached(w)
        \/ EncodeCreates(w)
        \/ EncodeWrites(w)
        \/ EncodeReturns(w)

SpecEncode == InitEncode /\ [][NextEncode]_vars

\* C37: a cache path is returned as the thumbnail of a source only when the
\* JPEG at that path is written out completely, whether another closure is
\* encoding the same source or an earlier encode failed after creating the
\* file.
C37_ServedThumbnailIsComplete ==
    \A w \in Encoders : ops[w].pc = "served" => ops[w].complete

-----------------------------------------------------------------------------
(* Specification SpecInfer: infer_generation_type (parser.rs) applied to    *)
(* raw metadata texts made of parameter fields.                             *)

\* The keywords of infer_generation_type: is_grid, is_inpaint, is_upscale,
\* has_img2img_markers and has_hires_markers.
Markers ==
    [
     grid |->
       {
         \* script: x/y/z plot
         <<"s", "c", "r", "i", "p", "t", ":", " ", "x", "/", "y", "/", "z", " ", "p", "l", "o", "t">>,
         \* script: xyz plot
         <<"s", "c", "r", "i", "p", "t", ":", " ", "x", "y", "z", " ", "p", "l", "o", "t">>,
         \* x values:
         <<"x", " ", "v", "a", "l", "u", "e", "s", ":">>,
         \* y values:
         <<"y", " ", "v", "a", "l", "u", "e", "s", ":">>
       },
     inpaint |->
       {
         \* inpaint
         <<"i", "n", "p", "a", "i", "n", "t">>,
         \* mask blur
         <<"m", "a", "s", "k", " ", "b", "l", "u", "r">>,
         \* inpaint area
         <<"i", "n", "p", "a", "i", "n", "t", " ", "a", "r", "e", "a">>,
         \* masked content
         <<"m", "a", "s", "k", "e", "d", " ", "c", "o", "n", "t", "e", "n", "t">>,
         \* "class_type":"inpaintmodelconditioning"
         <<"\"", "c", "l", "a", "s", "s", "_", "t", "y", "p", "e", "\"", ":", "\"", "i", "n", "p", "a", "i", "n", "t", "m", "o", "d", "e", "l", "c", "o", "n", "d", "i", "t", "i", "o", "n", "i", "n", "g", "\"">>,
         \* "class_type":"loadimagemask"
         <<"\"", "c", "l", "a", "s", "s", "_", "t", "y", "p", "e", "\"", ":", "\"", "l", "o", "a", "d", "i", "m", "a", "g", "e", "m", "a", "s", "k", "\"">>
       },
     upscale |->
       {
         \* upscaler
         <<"u", "p", "s", "c", "a", "l", "e", "r">>,
         \* upscale by
         <<"u", "p", "s", "c", "a", "l", "e", " ", "b", "y">>,
         \* postprocess upscaler
         <<"p", "o", "s", "t", "p", "r", "o", "c", "e", "s", "s", " ", "u", "p", "s", "c", "a", "l", "e", "r">>,
         \* "class_type":"imageupscalewithmodel"
         <<"\"", "c", "l", "a", "s", "s", "_", "t", "y", "p", "e", "\"", ":", "\"", "i", "m", "a", "g", "e", "u", "p", "s", "c", "a", "l", "e", "w", "i", "t", "h", "m", "o", "d", "e", "l", "\"">>
       },
     img2img |->
       {
         \* img2img
         <<"i", "m", "g", "2", "i", "m", "g">>,
         \* denoising strength
         <<"d", "e", "n", "o", "i", "s", "i", "n", "g", " ", "s", "t", "r", "e", "n", "g", "t", "h">>,
         \* init image
         <<"i", "n", "i", "t", " ", "i", "m", "a", "g", "e">>,
         \* "class_type":"loadimage"
         <<"\"", "c", "l", "a", "s", "s", "_", "t", "y", "p", "e", "\"", ":", "\"", "l", "o", "a", "d", "i", "m", "a", "g", "e", "\"">>
       },
     hires |->
       {
         \* hires upscale
         <<"h", "i", "r", "e", "s", " ", "u", "p", "s", "c", "a", "l", "e">>,
         \* hires steps
         <<"h", "i", "r", "e", "s", " ", "s", "t", "e", "p", "s">>,
         \* hires upscaler
         <<"h", "i", "r", "e", "s", " ", "u", "p", "s", "c", "a", "l", "e", "r">>,
         \* hires resize
         <<"h", "i", "r", "e", "s", " ", "r", "e", "s", "i", "z", "e">>
       }
    ]

\* The fields a raw metadata text of the model is made of.
MetadataFields ==
    <<
      \* x values: 1
      <<"x", " ", "v", "a", "l", "u", "e", "s", ":", " ", "1">>,
      \* mAsk Blur: 4
      <<"m", "A", "s", "k", " ", "B", "l", "u", "r", ":", " ", "4">>,
      \* inpaint
      <<"i", "n", "p", "a", "i", "n", "t">>,
      \* upscaler: x
      <<"u", "p", "s", "c", "a", "l", "e", "r", ":", " ", "x">>,
      \* hires upscaler: x
      <<"h", "i", "r", "e", "s", " ", "u", "p", "s", "c", "a", "l", "e", "r", ":", " ", "x">>,
      \* hires steps: 9
      <<"h", "i", "r", "e", "s", " ", "s", "t", "e", "p", "s", ":", " ", "9">>,
      \* denoising strength: 1
      <<"d", "e", "n", "o", "i", "s", "i", "n", "g", " ", "s", "t", "r", "e", "n", "g", "t", "h", ":", " ", "1">>,
      \* init image: x
      <<"i", "n", "i", "t", " ", "i", "m", "a", "g", "e", ":", " ", "x">>,
      \* img2img
      <<"i", "m", "g", "2", "i", "m", "g">>,
      \* steps: 20
      <<"s", "t", "e", "p", "s", ":", " ", "2", "0">>,
      \*  
      <<" ">>,
      \* "class_type":"loadimage"
      <<"\"", "c", "l", "a", "s", "s", "_", "t", "y", "p", "e", "\"", ":", "\"", "l", "o", "a", "d", "i", "m", "a", "g", "e", "\"">>
    >>

\* Largest number of fields in a raw metadata text.
MaxFields == 2

RECURSIVE JoinFields(_)
JoinFields(fields) ==
    IF fields = <<>> THEN <<>>
    ELSE IF Len(fields) = 1 THEN MetadataFields[fields[1]]
    ELSE MetadataFields[fields[1]] \o <<",", " ">> \o JoinFields(Tail(fields))

MetadataTexts ==
    UNION { { JoinFields(f) : f \in [1..n -> DOMAIN MetadataFields] } : n \in 0..MaxFields }

\* str::contains(pat).
contains(text, pat) ==
    \E i \in 1..(Len(text) - Len(pat) + 1) : SubSeq(text, i, i + Len(pat) - 1) = pat

HasMarker(metadata, kind) == \E m \in Markers[kind] : contains(metadata, m)

InitImage == <<"i", "n", "i", "t", " ", "i", "m", "a", "g", "e">>

Img2Img == <<"i", "m", "g", "2", "i", "m", "g">>

\* An inference that looks for the inpaint keywords before the grid keywords.
infer_generation_typeInpaintFirst(raw_metadata) ==
    LET metadata == to_ascii_lowercase(raw_metadata)
    IN  IF HasMarker(metadata, "inpaint") THEN "inpaint"
        ELSE IF HasMarker(metadata, "grid") THEN "grid"
        ELSE IF HasMarker(metadata, "upscale") THEN "upscale"
        ELSE IF HasMarker(metadata, "img2img") THEN "img2img"
        ELSE IF trim(metadata) = <<>> THEN "unknown"
        ELSE "txt2img"

infer_generation_type(raw_metadata) ==
    LET metadata            == to_ascii_lowercase(raw_metadata)
        is_grid             == HasMarker(metadata, "grid")
        is_inpaint          == HasMarker(metadata, "inpaint")
        is_upscale          == HasMarker(metadata, "upscale")
        has_img2img_markers == HasMarker(metadata, "img2img")
        has_hires_markers   == HasMarker(metadata, "hires")
    IN  IF is_grid THEN "grid"
        ELSE IF is_inpaint THEN "inpaint"
        ELSE IF is_upscale THEN "upscale"
        ELSE IF has_img2img_markers
        THEN IF /\ has_hires_markers
                /\ ~contains(metadata, InitImage)
                /\ ~contains(metadata, Img2Img)
                /\ ~is_inpaint
             THEN "txt2img"
             ELSE "img2img"
        ELSE IF trim(metadata) = <<>> THEN "unknown"
        ELSE "txt2img"

InitInfer ==
    /\ images = {}
    /\ tags = {}
    /\ image_tags = {}
    /\ next_image_id = 1
    /\ next_tag_id = 1
    /\ NoTraversal
    /\ NoQuery
    /\ NoWrites
    /\ NoScan
    /\ NoPrecache
    /\ NoCache
    /\ NoThumbs

inferFrame == <<dbVars, cursorVars, queryVars, writeVars, scanVars, precacheVars,
                cache_files, thumbnail_index, failed_thumbnail_sources, thumbVars>>

\* parse_metadata ends with infer_generation_type(raw).
InferGenerationType ==
    /\ last_op = None
    /\ \E raw \in MetadataTexts :
         last_op' = [op |-> "infer_generation_type", raw_metadata |-> raw,
                     result |-> infer_generation_type(raw)]
    /\ UNCHANGED inferFrame

InferReturns ==
    /\ last_op # None
    /\ last_op' = None
    /\ UNCHANGED inferFrame

NextInfer ==
    \/ InferGenerationType
    \/ InferReturns

SpecInfer == InitInfer /\ [][NextInfer]_vars

Classes == <<"grid", "inpaint", "upscale", "img2img">>

\* The earliest class of Classes with a keyword in the text, or "none".
FirstClass(metadata) ==
    LET matching == { k \in DOMAIN Classes : HasMarker(metadata, Classes[k]) }
    IN  IF matching = {} THEN "none"
        ELSE Classes[CHOOSE k \in matching : \A j \in matching : k <= j]

\* The text has a hires keyword and neither "init image" nor "img2img".
HiresFix(metadata) ==
    /\ HasMarker(metadata, "hires")
    /\ ~contains(metadata, InitImage)
    /\ ~contains(metadata, Img2Img)

Inferred == IF last_op = None THEN FALSE ELSE last_op.op = "infer_generation_type"

Lowered == to_ascii_lowercase(last_op.raw_metadata)

Blank == trim(last_op.raw_metadata) = <<>>

\* C38 as stated: the result is the first class, in the order grid, inpaint,
\* upscale, img2img, that has a keyword in the lower-cased text; a text that
\* is not blank and has no keyword gets txt2img; the result is unknown
\* exactly for an empty or whitespace text.
C38_FirstMatchingClass ==
    Inferred =>
        /\ FirstClass(Lowered) # "none" => last_op.result = FirstClass(Lowered)
        /\ (FirstClass(Lowered) = "none" /\ ~Blank) => last_op.result = "txt2img"
        /\ last_op.result = "unknown" <=> Blank

\* C38, amended: as C38 as stated, except that a text whose first class is
\* img2img, which has a hires keyword and neither "init image" nor
\* "img2img", gets txt2img.
C38_FirstMatchingClassButHiresFix ==
    Inferred =>
        /\ (FirstClass(Lowered) # "none"
               /\ ~(FirstClass(Lowered) = "img2img" /\ HiresFix(Lowered)))
             => last_op.result = FirstClass(Lowered)
        /\ (FirstClass(Lowered) = "img2img" /\ HiresFix(Lowered))
             => last_op.result = "txt2img"
        /\ (FirstClass(Lowered) = "none" /\ ~Blank) => last_op.result = "txt2img"
        /\ last_op.result = "unknown" <=> Blank

\* A text with "denoising strength" and "hires steps" was classified.
C38_Witness ==
    /\ Inferred
    /\ IF last_op = None THEN FALSE
       ELSE /\ FirstClass(Lowered) = "img2img"
            /\ HiresFix(Lowered)
            /\ last_op.result = "txt2img"

-----------------------------------------------------------------------------
(* Specification SpecSanitize: sanitize_fts_query applied to user queries   *)
(* with quotes, wildcards and punctuation, and the ranked query run with    *)
(* the sanitized text.                                                      *)

\* Largest number of characters of a user query.
MaxQueryLen == 4

QueryChars == {"a", "B", "_", "*", "\"", " ", "-"}

UserQueries == UNION { [1..n -> QueryChars] : n \in 0..MaxQueryLen }

InitSanitize ==
    /\ images = { MakeRow(1, PathList[1], 1, NULL, Txt2ImgCode, FALSE,
                          <<"a", " ", "b">>, NULL) }
    /\ tags = {}
    /\ image_tags = {}
    /\ next_image_id = 2
    /\ next_tag_id = 1
    /\ NoTraversal
    /\ NoQuery
    /\ NoWrites
    /\ NoScan
    /\ NoPrecache
    /\ NoCache
    /\ NoThumbs

\* A caller sanitizes a query.
SanitizeCall ==
    /\ last_op = None
    /\ \E q \in UserQueries :
         last_op' = [op |-> "sanitize_fts_query", query |-> q,
                     sanitized |-> sanitize_fts_query(q)]
    /\ UNCHANGED inferFrame

SanitizeReturns ==
    /\ last_op # None
    /\ last_op' = None
    /\ UNCHANGED inferFrame

NextSanitize ==
    \/ SanitizeCall
    \/ SanitizeReturns

SpecSanitize == InitSanitize /\ [][NextSanitize]_vars

\* The texts between the first and second quote, the third and fourth, ...
RECURSIVE QuotedPhrases(_)
QuotedPhrases(s) ==
    LET start == find_quote(s)
        after == SubSeq(s, start + 1, Len(s))
        end   == find_quote(after)
    IN  IF start = 0 \/ end = 0 THEN {}
        ELSE {SubSeq(after, 1, end - 1)}
             \cup QuotedPhrases(SubSeq(after, end + 1, Len(after)))

Stars(s) == Len(SelectSeq(s, LAMBDA ch : ch = "*"))

\* The whitespace-separated words of a query that have an alphanumeric
\* character.
SearchWords(q) == SelectSeq(split_whitespace(q), contains_search_token)

Sanitized == IF last_op = None THEN FALSE ELSE last_op.op = "sanitize_fts_query"

\* C39: each quoted phrase of the query is in the sanitized text as it was
\* written, in quotes; in a query without quotes every word gets one term,
\* with exactly one wildcard, at its end, unless the word had a wildcard,
\* and then none is added; a query without an alphanumeric character
\* sanitizes to the empty string and the ranked query returns no rows
\* without running a MATCH.
C39_SanitizedQueryShape ==
    Sanitized =>
        LET q     == last_op.query
            out   == last_op.sanitized
            words == SearchWords(q)
            terms == split_whitespace(out)
            found == query_images_porter(Some(q), {}, {}, 1, 0, <<1>>)
        IN  /\ \A ph \in QuotedPhrases(trim(q)) :
                 contains_search_token(ph) => contains(out, <<"\"">> \o ph \o <<"\"">>)
            /\ find_quote(q) = 0 =>
                 /\ Len(terms) = Len(words)
                 /\ \A k \in DOMAIN words :
                      IF Stars(words[k]) = 0
                      THEN Stars(terms[k]) = 1 /\ terms[k][Len(terms[k])] = "*"
                      ELSE Stars(terms[k]) = Stars(words[k])
            /\ ~contains_search_token(q) =>
                 /\ out = <<>>
                 /\ found.items = <<>>
                 /\ ~found.ran

=============================================================================
